---------------------------- MODULE Spec2Model ----------------------------
(***************************************************************************)
(* A model of the CHIP-8 virtual machine (src/chip8/chip8.go) and of the   *)
(* event loop that drives it (src/main.go, the second program of the       *)
(* file: main at line 348, processEvents at line 534).                     *)
(*                                                                         *)
(* The virtual machine is one record, VM, with the fields of the Go struct *)
(* CHIP_8.  Every method of the struct is an operator from a machine (and  *)
(* the method's inputs) to the machine it leaves, so that Process, which   *)
(* loops over Step, is one operator and one action.                        *)
(*                                                                         *)
(* Byte arrays (ROM, Memory, Video) are kept as finite maps from an index  *)
(* to its non-zero byte; an index outside the map holds 0.  The maps are   *)
(* kept normalised (no entry holds 0), so two arrays are equal exactly     *)
(* when their maps are.                                                    *)
(*                                                                         *)
(* Time is counted in whole milliseconds, the period of the clock ticker   *)
(* (src/main.go:385).  The Go code works on int64 nanoseconds; where a     *)
(* nanosecond quantity does not fit a 32-bit integer of TLC the arithmetic *)
(* is carried out on a (ms, ns) pair, and the comment at the definition    *)
(* gives the identity used.  Input events are handled at the time of the   *)
(* last tick, and one value stands for all the random numbers of one call  *)
(* of Process (the programs loaded here draw none).                        *)
(***************************************************************************)
EXTENDS Integers, Sequences, FiniteSets, TLC

VARIABLES
    VM,      \* main.go:266      the virtual machine (a CHIP_8 record)
    Paused,  \* main.go:287      emulation is paused
    Log,     \* main.go:281      the lines the debug log holds (as a set)
    now,     \* time.Now(), in ms since the program started
    file,    \* main.go:290      the program that was loaded (bytes, breakpoints)
    host,    \* "running", or "crashed" once a panic has unwound main
    last,    \* the last call the host made into the machine, and its result
    events   \* how many input events processEvents has handled

vars == <<VM, Paused, Log, now, file, host, last, events>>

-----------------------------------------------------------------------------
(* Program constants                                                       *)

MemSize == 4096
VideoSize == 1088
ScreenSize == 1024
StackSize == 16
NumKeys == 16
DefaultBase == 512
EtiBase == 1536
DefaultSpeed == 700
MaxSpeed == 15000
MinSpeed == 100
SpeedStep == 200
LowPitch == 8
HighPitch == 16
BreakpointFloor == 512

-----------------------------------------------------------------------------
(* Bounds of the model                                                     *)

\* The last millisecond at which the clock still ticks.
MaxNow == 40
\* The two gaps, in ms, between one served tick of the clock and the next.
ShortDelay == 10
LongDelay == 30
\* How many input events (keys) the user sends.
MaxEvents == 3
\* How many keys of the keypad the user presses (keys 15, 14, ...).
NumHostKeys == 1
\* How far, in speed steps, the user moves the speed from the baseline.
MaxSpeedSteps == 1
\* How many breakpoints the user adds with F9 / F6 on top of the file's.
MaxUserBreaks == 1
\* How many arithmetic instructions the machine executes after its loads.
MaxInsts == 1
\* How many graphics instructions the machine executes after its loads, and
\* how many rows the sprites of DRW Vx,Vy,n have.
MaxGfx == 2
MaxRows == 2
\* How many lines the source files of the assembler have.
MaxLines == 2
\* How many instructions that move registers to and from memory the machine
\* executes after its loads.
MaxMoves == 2

-----------------------------------------------------------------------------
(* Bytes and bits                                                          *)

RECURSIVE BitAnd(_, _)
BitAnd(a, b) ==
    IF a = 0 \/ b = 0 THEN 0
    ELSE (IF a % 2 = 1 /\ b % 2 = 1 THEN 1 ELSE 0) + 2 * BitAnd(a \div 2, b \div 2)

RECURSIVE BitOr(_, _)
BitOr(a, b) ==
    IF a = 0 THEN b
    ELSE IF b = 0 THEN a
    ELSE (IF a % 2 = 1 \/ b % 2 = 1 THEN 1 ELSE 0) + 2 * BitOr(a \div 2, b \div 2)

RECURSIVE BitXor(_, _)
BitXor(a, b) ==
    IF a = 0 THEN b
    ELSE IF b = 0 THEN a
    ELSE (IF a % 2 # b % 2 THEN 1 ELSE 0) + 2 * BitXor(a \div 2, b \div 2)

RECURSIVE Pow2(_)
Pow2(n) == IF n = 0 THEN 1 ELSE 2 * Pow2(n - 1)

\* byte(v): the conversion of an unsigned value to a Go byte.
Byte(v) == v % 256
\* v << n and v >> n on a byte.
Shl8(v, n) == (v * Pow2(n)) % 256
Shr8(v, n) == v \div Pow2(n)
\* int8(v): the conversion of a byte to a signed 8-bit integer.
Int8(v) == IF v >= 128 THEN v - 256 ELSE v

\* A byte array as a finite map of its non-zero bytes: Get reads an index, Put
\* writes one.
Zero == [k \in {} |-> 0]
Get(m, a) == IF a \in DOMAIN m THEN m[a] ELSE 0
Put(m, a, v) ==
    IF v = 0 THEN [k \in DOMAIN m \ {a} |-> m[k]] @@ Zero
    ELSE (a :> v) @@ m
\* The bytes of a sequence of 16-bit words, MSB first, from index at.
WordsAt(at, ws) ==
    LET byteOf(i) == IF i % 2 = 0 THEN ws[(i \div 2) + 1] \div 256
                     ELSE ws[(i \div 2) + 1] % 256
        nz == {i \in 0..(2 * Len(ws) - 1) : byteOf(i) # 0}
    IN  [k \in {at + i : i \in nz} |-> byteOf(k - at)]
\* The union of two maps with disjoint domains.
Join(m1, m2) ==
    [k \in DOMAIN m1 \cup DOMAIN m2 |-> IF k \in DOMAIN m1 THEN m1[k] ELSE m2[k]]

-----------------------------------------------------------------------------
(* Time.  A point in time is a record [ms, ns] standing for ms * 10^6 + ns *)
(* nanoseconds, 0 <= ns < 10^6.  The clock (now, Clock) is always a whole  *)
(* number of milliseconds and is kept as the number ms alone.              *)

\* One second is 1000000000 ns = MsPerSec * NsPerMs; the timers count at 60 Hz.
NsPerMs == 1000000
MsPerSec == 1000
TimerHz == 60

\* The int64 value 0 that Reset stores in DT and ST.
TimeZero == [ms |-> 0, ns |-> 0]

\* now < t, for the clock value now and the point in time t.
Before(t, d) == t < d.ms \/ (t = d.ms /\ d.ns > 0)

\* time.Now().UnixNano() + int64(v)*1000000000/60 (chip8.go:789, :794).
\* v*10^9/60 = v*(5*10^7)/3; with v = 3q + r its floor is
\* q*5*10^7 + floor(r*5*10^7/3) ns, that is q*50 ms plus floor(r*5*10^7/3) ns.
Deadline(t, v) ==
    LET q == v \div 3
        r == v % 3
        rem == (r * 50 * NsPerMs) \div 3
    IN  [ms |-> t + q * 50 + rem \div NsPerMs, ns |-> rem % NsPerMs]

\* uint8((d - now) * 60 / 1000000000) for now < d, else 0 (chip8.go:373-392).
\* With d - now = m ms + n ns: (m*10^6 + n)*60/10^9 = (3m + 3n/10^6)/50, and
\* since 3m is an integer its floor is floor((3m + floor(3n/10^6))/50).
TimerValue_late(d, t) ==
    Byte((3 * (d.ms - t) + (3 * d.ns) \div NsPerMs) \div (3000 \div TimerHz))
TimerValue(d, t) ==
    IF Before(t, d)
    THEN Byte((3 * (d.ms - t) + (3 * d.ns) \div NsPerMs) \div (3000 \div TimerHz))
    ELSE 0

-----------------------------------------------------------------------------
(* The machine                                                             *)

Regs == 0..15
\* The value of W for a nil pointer: no index of V.
NoReg == Cardinality(Regs)
ZeroV == [i \in 0..15 |-> 0]
ZeroR == [i \in 0..7 |-> 0]
ZeroStack == [i \in 0..(StackSize - 1) |-> 0]
NoKeys == [k \in 0..(NumKeys - 1) |-> FALSE]
NoBreakpoints == [a \in {} |-> 0]

\* A Breakpoint value (chip8.go:115-127).
Breakpoint(address, reason, conditional, once) ==
    [Address |-> address, Reason |-> reason, Conditional |-> conditional, Once |-> once]
NoBreak == Breakpoint(0, "", FALSE, FALSE)

\* The reserved bytes copied below the program (font sprites and interpreter
\* bytes).  Of the table the model keeps the glyph of the digit 0, which
\* LD F,Vx places at address 0 (five rows: F0 90 90 90 F0).
EmulatorROM == (0 :> 240) @@ (1 :> 144) @@ (2 :> 144) @@ (3 :> 144) @@ (4 :> 240)

\* Variant of Reset that leaves W as it is.
Reset_keepsWait(vm, t) ==
    [vm EXCEPT !.Memory = vm.ROM,
               !.Video = Zero, !.Keys = NoKeys, !.PC = vm.Base, !.SP = 0, !.I = 0,
               !.V = ZeroV, !.R = ZeroR, !.DT = TimeZero, !.ST = TimeZero,
               !.Clock = t, !.Cycles = 0, !.Pitch = LowPitch]

\* Reset the machine at time t.
Reset(vm, t) ==
    [vm EXCEPT !.Memory = vm.ROM,
               !.Video = Zero,
               !.Keys = NoKeys,
               !.PC = vm.Base,
               !.SP = 0,
               !.I = 0,
               !.V = ZeroV,
               !.R = ZeroR,
               !.DT = TimeZero,
               !.ST = TimeZero,
               !.Clock = t,
               !.Cycles = 0,
               !.W = NoReg,
               !.Pitch = LowPitch]

\* A program is a record [len, bytes]: len bytes, of which bytes maps the
\* offsets of the non-zero ones to their values.
BaseOf(eti) == IF eti THEN EtiBase ELSE DefaultBase
Fits(program, eti) == program.len <= MemSize - BaseOf(eti)

\* LoadROM at time t, for a program that fits (for one that does not, LoadROM
\* returns an error and no machine).
LoadROM(program, eti, t) ==
    LET base == BaseOf(eti)
        low == [k \in {a \in DOMAIN EmulatorROM : a < base} |-> EmulatorROM[k]]
        high == [k \in {base + o : o \in DOMAIN program.bytes} |-> program.bytes[k - base]]
    IN  Reset([ROM |-> Join(low, high), Memory |-> Zero, Video |-> Zero,
               Stack |-> ZeroStack, SP |-> 0, PC |-> 0, Base |-> base,
               Size |-> program.len, I |-> 0, V |-> ZeroV, R |-> ZeroR,
               DT |-> TimeZero, ST |-> TimeZero, Clock |-> 0, Cycles |-> 0,
               Speed |-> DefaultSpeed, W |-> NoReg, Keys |-> NoKeys, Pitch |-> 0,
               Breakpoints |-> NoBreakpoints], t)

\* The bytes SaveROM writes without the interpreter prefix: ROM[Base : Base+Size].
SaveROM(vm) ==
    [len |-> vm.Size,
     bytes |-> [o \in {a - vm.Base : a \in {k \in DOMAIN vm.ROM :
                                             k >= vm.Base /\ k < vm.Base + vm.Size}}
                |-> vm.ROM[o + vm.Base]]]

SetBreakpoint(vm, b) ==
    IF b.Address >= BreakpointFloor /\ b.Address < MemSize
    THEN [vm EXCEPT !.Breakpoints =
             [a \in DOMAIN vm.Breakpoints \cup {b.Address} |->
                 IF a = b.Address THEN b ELSE vm.Breakpoints[a]]]
    ELSE vm

RemoveBreakpoint(vm, address) ==
    [vm EXCEPT !.Breakpoints = [a \in DOMAIN vm.Breakpoints \ {address} |-> vm.Breakpoints[a]]]

ClearBreakpoints(vm) == [vm EXCEPT !.Breakpoints = NoBreakpoints]

\* ToggleBreakpoint at the current PC.
ToggleBreakpoint(vm) ==
    IF vm.PC \notin DOMAIN vm.Breakpoints
    THEN SetBreakpoint(vm, Breakpoint(vm.PC, "User break", FALSE, FALSE))
    ELSE RemoveBreakpoint(vm, vm.PC)

RECURSIVE SetAll(_, _)
SetAll(vm, bs) == IF bs = <<>> THEN vm ELSE SetAll(SetBreakpoint(vm, Head(bs)), Tail(bs))

\* LoadAssembly: LoadROM, then every breakpoint of the assembly in order.
LoadAssembly(asm, eti, t) == SetAll(LoadROM(asm.ROM, eti, t), asm.Breakpoints)

\* StepOverBreakpoint: [vm, ok, fault].  Reading Memory[PC] with PC beyond the
\* array is a run-time panic.
StepOverBreakpoint(vm) ==
    IF vm.PC >= MemSize
    THEN [vm |-> vm, ok |-> FALSE, fault |-> "index out of range"]
    ELSE IF Get(vm.Memory, vm.PC) \div 16 # 2
    THEN [vm |-> vm, ok |-> FALSE, fault |-> ""]
    ELSE [vm |-> IF (vm.PC + 2) \notin DOMAIN vm.Breakpoints
                 THEN SetBreakpoint(vm, Breakpoint(vm.PC + 2, "", FALSE, TRUE))
                 ELSE vm,
          ok |-> TRUE, fault |-> ""]

IncSpeed(vm, t) ==
    IF vm.Speed < MaxSpeed
    THEN [vm EXCEPT !.Speed = vm.Speed + SpeedStep, !.Clock = t, !.Cycles = 0]
    ELSE vm

DecSpeed(vm, t) ==
    IF vm.Speed > MinSpeed
    THEN [vm EXCEPT !.Speed = vm.Speed - SpeedStep, !.Clock = t, !.Cycles = 0]
    ELSE vm

\* Variant of PressKey that ends the wait without storing the key.
PressKey_noStore(vm, key) ==
    IF key < NumKeys
    THEN [vm EXCEPT !.Keys[key] = TRUE, !.W = NoReg]
    ELSE vm

\* PressKey: W holds the index x of the register &V[x] points to.
PressKey(vm, key) ==
    IF key < NumKeys
    THEN IF vm.W # NoReg
         THEN [vm EXCEPT !.Keys[key] = TRUE, !.V[vm.W] = Byte(key), !.W = NoReg]
         ELSE [vm EXCEPT !.Keys[key] = TRUE]
    ELSE vm

ReleaseKey(vm, key) ==
    IF key < NumKeys THEN [vm EXCEPT !.Keys[key] = FALSE] ELSE vm

GetDelayTimer(vm, t) == TimerValue(vm.DT, t)
GetSoundTimer(vm, t) == TimerValue(vm.ST, t)

-----------------------------------------------------------------------------
(* Instructions.  A handler maps a machine to [vm, kind, msg]: the machine *)
(* it leaves, and kind "ok", or "panic" (a Go panic, msg its value) with   *)
(* the machine as the panic found it.                                      *)

Done(vm) == [vm |-> vm, kind |-> "ok", msg |-> ""]
Panic(vm, msg) == [vm |-> vm, kind |-> "panic", msg |-> msg]
OutOfRange == "index out of range"

\* The map f without its entries that hold 0.
Compact(f) == [k \in {i \in DOMAIN f : f[i] # 0} |-> f[k]] @@ Zero

cls(vm) == Done([vm EXCEPT !.Video = Zero])

sys(vm, address) == Panic(vm, "SYS calls are unimplemented")

\* Variants of call: without the overflow test; pushing the target address.
call_noCheck(vm, address) ==
    Done([vm EXCEPT !.Stack = [i \in DOMAIN vm.Stack \cup {vm.SP} |->
                                  IF i = vm.SP THEN vm.PC ELSE vm.Stack[i]],
                    !.SP = vm.SP + 1, !.PC = address])

call_pushesTarget(vm, address) ==
    IF vm.SP >= StackSize
    THEN Panic(vm, "Stack overflow!")
    ELSE Done([vm EXCEPT !.Stack[vm.SP] = address, !.SP = vm.SP + 1, !.PC = address])

call(vm, address) ==
    IF vm.SP >= StackSize
    THEN Panic(vm, "Stack overflow!")
    ELSE Done([vm EXCEPT !.Stack[vm.SP] = vm.PC, !.SP = vm.SP + 1, !.PC = address])

ret(vm) ==
    IF vm.SP = 0
    THEN Panic(vm, "Stack underflow!")
    ELSE Done([vm EXCEPT !.SP = vm.SP - 1, !.PC = vm.Stack[vm.SP - 1]])

\* Variant of exit that leaves the PC behind the instruction.
exit_fallsThrough(vm) == Done(vm)

exit(vm) == Done([vm EXCEPT !.PC = vm.PC - 2])

low(vm) == Done([vm EXCEPT !.Pitch = LowPitch])

high(vm) == Done([vm EXCEPT !.Pitch = HighPitch])

scrollUp(vm, n) ==
    LET off == (IF vm.Pitch = LowPitch THEN n \div 2 ELSE n) * vm.Pitch
        v == vm.Video
        copied(i) == IF i < VideoSize - off THEN Get(v, i + off) ELSE Get(v, i)
        wiped(i) == IF i >= ScreenSize - off /\ i < ScreenSize THEN 0 ELSE copied(i)
    IN  Done([vm EXCEPT !.Video =
                 Compact([i \in {k - off : k \in {j \in DOMAIN v : j >= off}} \cup DOMAIN v
                          |-> wiped(i)])])

scrollDown(vm, n) ==
    LET off == (IF vm.Pitch = LowPitch THEN n \div 2 ELSE n) * vm.Pitch
        v == vm.Video
        copied(i) == IF i >= off THEN Get(v, i - off) ELSE Get(v, i)
        wiped(i) == IF i < off THEN 0 ELSE copied(i)
    IN  Done([vm EXCEPT !.Video =
                 Compact([i \in {k + off : k \in {j \in DOMAIN v : j + off < VideoSize}}
                          |-> wiped(i)])])

scrollRight(vm) ==
    LET shift == vm.Pitch \div 4
        v == vm.Video
        new(i) == IF i >= ScreenSize THEN Get(v, i)
                  ELSE BitOr(Shr8(Get(v, i), shift),
                             IF i % vm.Pitch > 0 THEN Shl8(Get(v, i - 1), 8 - shift) ELSE 0)
    IN  Done([vm EXCEPT !.Video =
                 Compact([i \in DOMAIN v \cup {k + 1 : k \in {j \in DOMAIN v : j + 1 < ScreenSize}}
                          |-> new(i)])])

scrollLeft(vm) ==
    LET shift == vm.Pitch \div 4
        v == vm.Video
        new(i) == IF i >= ScreenSize THEN Get(v, i)
                  ELSE BitOr(Shl8(Get(v, i), shift),
                             IF i % vm.Pitch < vm.Pitch - 1
                             THEN Shr8(Get(v, i + 1), 8 - shift) ELSE 0)
    IN  Done([vm EXCEPT !.Video =
                 Compact([i \in DOMAIN v \cup {k - 1 : k \in {j \in DOMAIN v : j >= 1 /\ j <= ScreenSize}}
                          |-> new(i)])])

jump(vm, address) == Done([vm EXCEPT !.PC = address])

jumpV0(vm, address) == Done([vm EXCEPT !.PC = address + vm.V[0]])

skip(vm, cond) == Done(IF cond THEN [vm EXCEPT !.PC = vm.PC + 2] ELSE vm)

skipIf(vm, x, b) == skip(vm, vm.V[x] = b)
skipIfNot(vm, x, b) == skip(vm, vm.V[x] # b)
skipIfXY(vm, x, y) == skip(vm, vm.V[x] = vm.V[y])
skipIfNotXY(vm, x, y) == skip(vm, vm.V[x] # vm.V[y])
skipIfGreater(vm, x, y) == skip(vm, vm.V[x] > vm.V[y])
skipIfLess(vm, x, y) == skip(vm, vm.V[x] < vm.V[y])

\* Keys has 16 entries and V[x] is any byte.
skipIfPressed(vm, x) ==
    IF vm.V[x] >= NumKeys THEN Panic(vm, OutOfRange) ELSE skip(vm, vm.Keys[vm.V[x]])
skipIfNotPressed(vm, x) ==
    IF vm.V[x] >= NumKeys THEN Panic(vm, OutOfRange) ELSE skip(vm, ~vm.Keys[vm.V[x]])

loadX(vm, x, b) == Done([vm EXCEPT !.V[x] = b])
loadXY(vm, x, y) == Done([vm EXCEPT !.V[x] = vm.V[y]])
loadXDT(vm, x, t) == Done([vm EXCEPT !.V[x] = GetDelayTimer(vm, t)])
loadDTX(vm, x, t) == Done([vm EXCEPT !.DT = Deadline(t, vm.V[x])])
loadSTX(vm, x, t) == Done([vm EXCEPT !.ST = Deadline(t, vm.V[x])])
loadXK(vm, x) == Done([vm EXCEPT !.W = x])
loadI(vm, address) == Done([vm EXCEPT !.I = address])

\* The adjustments of one double-dabble round: every nibble k..top of b that
\* is 5 or more gets 3 added, from the lowest up.
RECURSIVE Dabble(_, _, _)
Dabble(b, k, top) ==
    IF k > top THEN b
    ELSE Dabble(IF (b \div Pow2(4 * k)) % 16 >= 5 THEN b + 3 * Pow2(4 * k) ELSE b,
                k + 1, top)

\* The loop of bcd / bcd16 from round i on: bits rounds over the value n.
\* b is a uint (b >= 0), and its value is computed round by round.
RECURSIVE DoubleDabble(_, _, _, _, _)
DoubleDabble(b, n, i, bits, top) ==
    IF b >= 0 /\ i = bits THEN b
    ELSE DoubleDabble(2 * Dabble(b, 0, top) + ((n \div Pow2(bits - 1 - i)) % 2),
                      n, i + 1, bits, top)

\* Memory[I+0], Memory[I+1], ... = digits, one store after the other; a store
\* beyond the array panics and leaves the earlier ones done.
RECURSIVE StoreDigits(_, _, _)
StoreDigits(vm, k, digits) ==
    IF k > Len(digits) THEN Done(vm)
    ELSE IF vm.I + k - 1 >= MemSize THEN Panic(vm, OutOfRange)
    ELSE StoreDigits([vm EXCEPT !.Memory = Put(vm.Memory, vm.I + k - 1, digits[k])],
                     k + 1, digits)

\* Variant of bcd that stores the hexadecimal digits of Vx.
bcd_binary(vm, x) ==
    StoreDigits(vm, 1, <<0, vm.V[x] \div 16, vm.V[x] % 16>>)

bcd(vm, x) ==
    LET b == DoubleDabble(0, vm.V[x], 0, 8, 2)
    IN  StoreDigits(vm, 1, <<(b \div 256) % 16, (b \div 16) % 16, b % 16>>)

bcd16(vm, x, y) ==
    LET b == DoubleDabble(0, vm.V[x] * 256 + vm.V[y], 0, 16, 4)
    IN  StoreDigits(vm, 1, <<(b \div 65536) % 16, (b \div 4096) % 16, (b \div 256) % 16,
                              (b \div 16) % 16, b % 16>>)

loadF(vm, x) == Done([vm EXCEPT !.I = vm.V[x] * 5])

loadHF(vm, x) == Done([vm EXCEPT !.I = 80 + vm.V[x] * 10])

loadASCII(vm, x) ==
    LET c == 256 + vm.V[x] * 3
        m == vm.Memory
        ab == Get(m, c)
        cd == Get(m, c + 1)
        ef == Get(m, c + 2)
        m0 == Put(m, 448, Get(m, 240 + (ef % 16)))
        m1 == Put(m0, 449, Get(m0, 240 + (cd \div 16)))
        m2 == Put(m1, 450, Get(m1, 240 + (cd % 16)))
        m3 == Put(m2, 451, Get(m2, 240 + (ab \div 16)))
        m4 == Put(m3, 452, Get(m3, 240 + (ab % 16)))
    IN  Done([vm EXCEPT !.Memory = m4, !.V[0] = ef \div 16, !.I = 448])

or(vm, x, y) == Done([vm EXCEPT !.V[x] = BitOr(vm.V[x], vm.V[y])])
and(vm, x, y) == Done([vm EXCEPT !.V[x] = BitAnd(vm.V[x], vm.V[y])])
xor(vm, x, y) == Done([vm EXCEPT !.V[x] = BitXor(vm.V[x], vm.V[y])])

shl(vm, x) ==
    LET v1 == [vm.V EXCEPT ![15] = vm.V[x] \div 128]
    IN  Done([vm EXCEPT !.V = [v1 EXCEPT ![x] = Shl8(v1[x], 1)]])

shr(vm, x) ==
    LET v1 == [vm.V EXCEPT ![15] = vm.V[x] % 2]
    IN  Done([vm EXCEPT !.V = [v1 EXCEPT ![x] = Shr8(v1[x], 1)]])

addX(vm, x, b) == Done([vm EXCEPT !.V[x] = Byte(vm.V[x] + b)])

addXY(vm, x, y) ==
    LET v1 == [vm.V EXCEPT ![x] = Byte(vm.V[x] + vm.V[y])]
    IN  Done([vm EXCEPT !.V = [v1 EXCEPT ![15] = IF v1[x] < v1[y] THEN 1 ELSE 0]])

addIX(vm, x) ==
    LET i == vm.I + vm.V[x]
    IN  Done([vm EXCEPT !.I = i, !.V[15] = IF i >= MemSize THEN 1 ELSE 0])

subXY(vm, x, y) ==
    LET v1 == [vm.V EXCEPT ![15] = IF vm.V[x] >= vm.V[y] THEN 1 ELSE 0]
    IN  Done([vm EXCEPT !.V = [v1 EXCEPT ![x] = Byte(v1[x] - v1[y] + 256)]])

subYX(vm, x, y) ==
    LET v1 == [vm.V EXCEPT ![15] = IF vm.V[y] >= vm.V[x] THEN 1 ELSE 0]
    IN  Done([vm EXCEPT !.V = [v1 EXCEPT ![x] = Byte(v1[y] - v1[x] + 256)]])

mulXY(vm, x, y) ==
    LET r == vm.V[x] * vm.V[y]
        v1 == [vm.V EXCEPT ![15] = Byte(r \div 256)]
    IN  Done([vm EXCEPT !.V = [v1 EXCEPT ![x] = Byte(r)]])

\* An integer division by zero is a run-time panic.
divXY(vm, x, y) ==
    IF vm.V[y] = 0 THEN Panic(vm, "integer divide by zero")
    ELSE LET q == vm.V[x] \div vm.V[y]
             r == vm.V[x] % vm.V[y]
             v1 == [vm.V EXCEPT ![x] = q]
         IN  Done([vm EXCEPT !.V = [v1 EXCEPT ![15] = r]])

\* rnd is the value rand.Intn(256) returns.
loadRandom(vm, x, b, rnd) == Done([vm EXCEPT !.V[x] = BitAnd(rnd, b)])

\* The loop of draw over the sprite rows from row k on.  pos is the offset of
\* the scan line, b = x >> 3 (negative for a negative x) and i = x & 7; c
\* collects the pixels turned off.  uint(pos) + b wraps around for a negative
\* sum, which then lies beyond every screen and ends the loop.
RECURSIVE drawRows(_, _, _, _, _, _, _)
drawRows(vm, rows, k, pos, b, i, c) ==
    IF k > Len(rows) THEN [vm |-> vm, c |-> c]
    ELSE IF pos < 0 THEN drawRows(vm, rows, k + 1, pos + vm.Pitch, b, i, c)
    ELSE LET n == pos + b
             s == rows[k]
         IN  IF n < 0 \/ (n >= 256 /\ vm.Pitch = LowPitch) \/ (n >= 1024 /\ vm.Pitch = HighPitch)
             THEN [vm |-> vm, c |-> c]
             ELSE LET b0 == Get(vm.Video, n)
                      b1 == Get(vm.Video, n + 1)
                      n0 == BitXor(b0, Shr8(s, i))
                      n1 == IF i > 0 THEN BitXor(b1, Shl8(s, 8 - i)) ELSE b1
                      off == BitOr(BitAnd(b0, 255 - n0), BitAnd(b1, 255 - n1))
                      vm1 == [vm EXCEPT !.Video = Put(Put(vm.Video, n, n0), n + 1, n1)]
                  IN  drawRows(vm1, rows, k + 1, pos + vm.Pitch, b, i, BitOr(c, off))

\* draw: [vm, kind, msg, c].  x and y are the int8 arguments; the slice
\* Memory[a : a+n] panics when it ends beyond the array.
Drawn(r) == [vm |-> r.vm, kind |-> "ok", msg |-> "", c |-> r.c]

draw(vm, a, x, y, n) ==
    IF a + n > MemSize
    THEN [vm |-> vm, kind |-> "panic", msg |-> "slice bounds out of range", c |-> 0]
    ELSE Drawn(drawRows(vm, [k \in 1..n |-> Get(vm.Memory, a + k - 1)], 1,
                        y * vm.Pitch, x \div 8, x % 8, 0))

\* Variant of Collision that sets VF on a collision and leaves it otherwise.
Collision_sticky(r) ==
    IF r.kind = "panic" THEN Panic(r.vm, r.msg)
    ELSE Done([r.vm EXCEPT !.V[15] = IF r.c # 0 THEN 1 ELSE @])

\* VF from what draw returned in r.
Collision(r) ==
    IF r.kind = "panic" THEN Panic(r.vm, r.msg)
    ELSE Done([r.vm EXCEPT !.V[15] = IF r.c # 0 THEN 1 ELSE 0])

drawSprite(vm, x, y, n) == Collision(draw(vm, vm.I, Int8(vm.V[x]), Int8(vm.V[y]), n))

\* The loop of drawSpriteEx.  r holds the machine and the collisions c so far;
\* Collide is c |= vm.draw(...); a panic of draw unwinds the loop.
Collide(r, c) == [r EXCEPT !.c = BitOr(c, r.c)]

\* The left half of row i.
drawLeft(r, a, x, y, i) ==
    Collide(draw(r.vm, a + 2 * i, Int8(r.vm.V[x]), Int8(Byte(r.vm.V[y] + i)), 1), r.c)

\* Variant of drawRight with c = vm.draw(...).
drawRight_assigns(r, a, x, y, i) ==
    IF r.kind = "panic" \/ r.vm.Pitch # HighPitch THEN r
    ELSE draw(r.vm, a + 2 * i + 1, Int8(Byte(r.vm.V[x] + 8)), Int8(Byte(r.vm.V[y] + i)), 1)

\* The right half of row i, which only the high resolution has.
drawRight(r, a, x, y, i) ==
    IF r.kind = "panic" \/ r.vm.Pitch # HighPitch THEN r
    ELSE Collide(draw(r.vm, a + 2 * i + 1, Int8(Byte(r.vm.V[x] + 8)),
                      Int8(Byte(r.vm.V[y] + i)), 1), r.c)

\* The loop from row i on.
RECURSIVE drawColumns(_, _, _, _, _)
drawColumns(r, a, x, y, i) ==
    IF r.kind = "panic" THEN Panic(r.vm, r.msg)
    ELSE IF i = 16 THEN Done([r.vm EXCEPT !.V[15] = IF r.c # 0 THEN 1 ELSE 0])
    ELSE drawColumns(drawRight(drawLeft(r, a, x, y, i), a, x, y, i), a, x, y, i + 1)

drawSpriteEx(vm, x, y) ==
    drawColumns([vm |-> vm, kind |-> "ok", msg |-> "", c |-> 0], vm.I, x, y, 0)

\* The loop of saveRegs from register i on.
RECURSIVE saveFrom(_, _, _)
saveFrom(vm, i, x) ==
    IF i > x THEN vm
    ELSE saveFrom(IF vm.I + i < MemSize
                  THEN [vm EXCEPT !.Memory = Put(vm.Memory, vm.I + i, vm.V[i])]
                  ELSE vm, i + 1, x)

\* Variant of saveRegs that writes through to the ROM image.
saveRegs_intoROM(vm, x) ==
    LET r == saveFrom(vm, 0, x) IN Done([r EXCEPT !.ROM = r.Memory])

saveRegs(vm, x) == Done(saveFrom(vm, 0, x))

\* Variant of loadRegs that loads all sixteen registers.
loadRegs_all(vm, x) ==
    Done([vm EXCEPT !.V = [i \in Regs |->
             IF vm.I + i < MemSize THEN Get(vm.Memory, vm.I + i) ELSE 0]])

loadRegs(vm, x) ==
    Done([vm EXCEPT !.V = [i \in Regs |->
             IF i > x THEN vm.V[i]
             ELSE IF vm.I + i < MemSize THEN Get(vm.Memory, vm.I + i) ELSE 0]])

\* copy(R[:], V[:x+1]) copies min(8, x+1) bytes.
storeR(vm, x) ==
    Done([vm EXCEPT !.R = [i \in 0..7 |-> IF i <= x THEN vm.V[i] ELSE vm.R[i]]])

\* R[:x+1] is a slice of an array of 8 and panics for x+1 > 8.
readR(vm, x) ==
    IF x + 1 > 8 THEN Panic(vm, "slice bounds out of range")
    ELSE Done([vm EXCEPT !.V = [i \in Regs |-> IF i <= x THEN vm.R[i] ELSE vm.V[i]]])

-----------------------------------------------------------------------------
(* Step and Process                                                        *)

\* fetch: [vm, kind, msg, inst].  PC is advanced before the two bytes are
\* read, and reading beyond the array panics.
fetch(vm) ==
    LET i == vm.PC
        vm1 == [vm EXCEPT !.PC = i + 2]
    IN  IF i + 1 >= MemSize
        THEN [vm |-> vm1, kind |-> "panic", msg |-> OutOfRange, inst |-> 0]
        ELSE [vm |-> vm1, kind |-> "ok", msg |-> "",
              inst |-> Get(vm.Memory, i) * 256 + Get(vm.Memory, i + 1)]

\* The instruction decoding of Step.  Every test of the code fixes the high
\* nibble of the instruction, so the tests are grouped by it; within a group
\* they are in the order of the code.  t is what time.Now() returns and rnd
\* what rand.Intn(256) returns.
InvalidOpcode(vm) == [vm |-> vm, kind |-> "error", msg |-> "Invalid opcode"]

Decode(vm, inst, t, rnd) ==
    LET op == inst \div 4096
        a == inst % 4096
        b == inst % 256
        n == inst % 16
        x == (inst \div 256) % 16
        y == (inst \div 16) % 16
    IN
        CASE op = 0 ->
                IF inst = 224 THEN cls(vm)
                ELSE IF inst = 238 THEN ret(vm)
                ELSE IF inst = 251 THEN scrollRight(vm)
                ELSE IF inst = 252 THEN scrollLeft(vm)
                ELSE IF inst = 253 THEN exit(vm)
                ELSE IF inst = 254 THEN low(vm)
                ELSE IF inst = 255 THEN high(vm)
                ELSE IF inst \div 16 = 11 THEN scrollUp(vm, n)
                ELSE IF inst \div 16 = 12 THEN scrollDown(vm, n)
                ELSE sys(vm, a)
          [] op = 1 -> jump(vm, a)
          [] op = 2 -> call(vm, a)
          [] op = 3 -> skipIf(vm, x, b)
          [] op = 4 -> skipIfNot(vm, x, b)
          [] op = 5 ->
                IF n = 0 THEN skipIfXY(vm, x, y)
                ELSE IF n = 1 THEN skipIfGreater(vm, x, y)
                ELSE IF n = 2 THEN skipIfLess(vm, x, y)
                ELSE InvalidOpcode(vm)
          [] op = 6 -> loadX(vm, x, b)
          [] op = 7 -> addX(vm, x, b)
          [] op = 8 ->
                IF n = 0 THEN loadXY(vm, x, y)
                ELSE IF n = 1 THEN or(vm, x, y)
                ELSE IF n = 2 THEN and(vm, x, y)
                ELSE IF n = 3 THEN xor(vm, x, y)
                ELSE IF n = 4 THEN addXY(vm, x, y)
                ELSE IF n = 5 THEN subXY(vm, x, y)
                ELSE IF n = 6 THEN shr(vm, x)
                ELSE IF n = 7 THEN subYX(vm, x, y)
                ELSE IF n = 14 THEN shl(vm, x)
                ELSE InvalidOpcode(vm)
          [] op = 9 ->
                IF n = 0 THEN skipIfNotXY(vm, x, y)
                ELSE IF n = 1 THEN mulXY(vm, x, y)
                ELSE IF n = 2 THEN divXY(vm, x, y)
                ELSE IF n = 3 THEN bcd16(vm, x, y)
                ELSE InvalidOpcode(vm)
          [] op = 10 -> loadI(vm, a)
          [] op = 11 -> jumpV0(vm, a)
          [] op = 12 -> loadRandom(vm, x, b, rnd)
          [] op = 13 ->
                IF n = 0 THEN drawSpriteEx(vm, x, y)
                ELSE drawSprite(vm, x, y, n)
          [] op = 14 ->
                IF b = 158 THEN skipIfPressed(vm, x)
                ELSE IF b = 161 THEN skipIfNotPressed(vm, x)
                ELSE InvalidOpcode(vm)
          [] op = 15 ->
                IF b = 51 THEN bcd(vm, x)
                ELSE IF b = 7 THEN loadXDT(vm, x, t)
                ELSE IF b = 10 THEN loadXK(vm, x)
                ELSE IF b = 21 THEN loadDTX(vm, x, t)
                ELSE IF b = 24 THEN loadSTX(vm, x, t)
                ELSE IF b = 30 THEN addIX(vm, x)
                ELSE IF b = 41 THEN loadF(vm, x)
                ELSE IF b = 48 THEN loadHF(vm, x)
                ELSE IF b = 85 THEN saveRegs(vm, x)
                ELSE IF b = 101 THEN loadRegs(vm, x)
                ELSE IF b = 117 THEN storeR(vm, x)
                ELSE IF b = 133 THEN readR(vm, x)
                ELSE IF b = 148 THEN loadASCII(vm, x)
                ELSE InvalidOpcode(vm)

\* Does the breakpoint b at the PC of vm fire?
\* (Variant: every breakpoint fires.)
Fires_always(vm, b) == TRUE

Fires(vm, b) == ~b.Conditional \/ vm.V[15] # 0

\* What Step does with a fired breakpoint b.
Consume(vm, b) == IF b.Once THEN RemoveBreakpoint(vm, vm.PC) ELSE vm

\* The result of Step after the instruction: "break" with the breakpoint at
\* the new PC, or "ok".
AtBreakpoint(vm) ==
    IF vm.PC \in DOMAIN vm.Breakpoints /\ Fires(vm, vm.Breakpoints[vm.PC])
    THEN [vm |-> Consume(vm, vm.Breakpoints[vm.PC]), kind |-> "break", msg |-> "",
          bp |-> vm.Breakpoints[vm.PC]]
    ELSE [vm |-> vm, kind |-> "ok", msg |-> "", bp |-> NoBreak]

\* The end of Step, e being what the decoded instruction left: an error or a
\* panic ends Step there; else the cycle count goes up and the breakpoints
\* are looked at.
Finish(e) ==
    IF e.kind # "ok" THEN [vm |-> e.vm, kind |-> e.kind, msg |-> e.msg, bp |-> NoBreak]
    ELSE AtBreakpoint([e.vm EXCEPT !.Cycles = e.vm.Cycles + 1])

\* Step from the fetch f on.
Execute(f, t, rnd) ==
    IF f.kind # "ok" THEN [vm |-> f.vm, kind |-> f.kind, msg |-> f.msg, bp |-> NoBreak]
    ELSE Finish(Decode(f.vm, f.inst, t, rnd))

\* Step: [vm, kind, msg, bp] with kind "ok" (nil), "break" (the Breakpoint
\* bp), "error" (another error) or "panic".
Step(vm, t, rnd) ==
    IF vm.W # NoReg THEN [vm |-> vm, kind |-> "ok", msg |-> "", bp |-> NoBreak]
    ELSE Execute(fetch(vm), t, rnd)

\* count in Process: (now - Clock) * Speed / 1000000000 on nanoseconds, which
\* for now and Clock in whole milliseconds is (t - Clock) * Speed / 1000.
Target(vm, t) == ((t - vm.Clock) * vm.Speed) \div MsPerSec

\* The loop of Process over r = [vm, kind, msg, bp, steps], where steps counts
\* the calls of Step: the loop ends when Step returned an error or the cycle
\* count has caught up.  Stepped is the loop body after its call of Step,
\* which returned r.
Stepped(r, count, steps) ==
    [vm |-> IF r.kind = "ok" /\ r.vm.W # NoReg THEN [r.vm EXCEPT !.Cycles = count]
            ELSE r.vm,
     kind |-> r.kind, msg |-> r.msg, bp |-> r.bp, steps |-> steps]

RECURSIVE Catchup(_, _, _, _)
Catchup(r, count, t, rnd) ==
    IF r.kind # "ok" \/ ~(r.vm.Cycles < count) THEN r
    ELSE Catchup(Stepped(Step(r.vm, t, rnd), count, r.steps + 1), count, t, rnd)

\* The state of the loop before its first round.
Started(vm) == [vm |-> vm, kind |-> "ok", msg |-> "", bp |-> NoBreak, steps |-> 0]

\* Variant of Process that leaves the cycle count alone while paused.
Process_pausedStalls(vm, paused, t, rnd) ==
    IF paused THEN Started(vm)
    ELSE Catchup(Started(vm), Target(vm, t), t, rnd)

\* Process: [vm, kind, msg, bp, steps].
Process(vm, paused, t, rnd) ==
    IF paused THEN Started([vm EXCEPT !.Cycles = Target(vm, t)])
    ELSE Catchup(Started(vm), Target(vm, t), t, rnd)

\* StepOut: the loop over r = [vm, kind, msg, bp], sp being SP at the call.
\* While the machine waits for a key Step returns nil and changes nothing,
\* so the condition of the loop stays true and StepOut does not return: kind
\* "hang".
RECURSIVE SteppingOut(_, _, _, _)
SteppingOut(r, sp, t, rnd) ==
    IF r.kind # "ok" \/ ~(sp > 0 /\ r.vm.SP >= sp) THEN r
    ELSE IF r.vm.W # NoReg THEN [r EXCEPT !.kind = "hang"]
    ELSE SteppingOut(Step(r.vm, t, rnd), sp, t, rnd)

StepOut(vm, t, rnd) ==
    SteppingOut([vm |-> vm, kind |-> "ok", msg |-> "", bp |-> NoBreak], vm.SP, t, rnd)

\* No instruction word: last.op before the first instruction is executed, and
\* what an operand form of the assembler gives for values it rejects.
NoInst == MemSize * 16
\* The instruction word of family op (its bits outside the operands) on x, y.
Word(op, x, y) == op + x * 256 + y * 16

-----------------------------------------------------------------------------
(* The assembler (src/font.go).  A source file is a sequence of lines as   *)
(* the scanner hands them over: an optional label, the token after it (an  *)
(* instruction mnemonic, a directive or the end of the line) and the       *)
(* operand tokens that follow.  A token is [typ, val, id]: val the number  *)
(* of a literal or V register, id the name of a referenced label.  Text    *)
(* operands (of BYTE and ASCII) are left out.                              *)

TOKEN(typ) == [typ |-> typ, val |-> 0, id |-> ""]
TOKEN_LIT(n) == [typ |-> "LIT", val |-> n, id |-> ""]
TOKEN_V(x) == [typ |-> "V", val |-> x, id |-> ""]
TOKEN_ID(label) == [typ |-> "ID", val |-> 0, id |-> label]

SourceLine(label, t, i, ops, reason) ==
    [label |-> label, t |-> t, i |-> i, ops |-> ops, reason |-> reason]
\* An instruction given by its 16-bit word: WORD w emits its two bytes.
INST(w) == SourceLine("", "INSTRUCTION", "WORD", <<TOKEN_LIT(w)>>, "")
BREAK(reason) == SourceLine("", "BREAK", "", <<>>, reason)
ASSERT(reason) == SourceLine("", "ASSERT", "", <<>>, reason)

\* The assembly a while assembling: ROM holds the bytes after the first
\* a.Base ones, line is the number of the line being assembled and err the
\* value of a panic ("" while there was none).
\* len(a.ROM): the address of the next byte.
Here(a) == a.Base + Len(a.ROM)

\* panic(msg) while assembling
Raise(a, msg) == [a EXCEPT !.err = msg]

\* a.ROM = append(a.ROM, bytes...)
Emit(a, bytes) == [a EXCEPT !.ROM = @ \o bytes]

assembleLabel(a, line) ==
    IF line.label \in DOMAIN a.Labels THEN [a |-> Raise(a, "duplicate label"), t |-> "END"]
    ELSE IF line.t \notin {"EQU", "VAR"}
    THEN [a |-> [a EXCEPT !.Labels = (line.label :> TOKEN_LIT(Here(a))) @@ @],
          t |-> line.t]
    ELSE IF /\ Len(line.ops) = 1
            /\ \/ line.t = "EQU" /\ line.ops[1].typ = "LIT"
               \/ line.t = "VAR" /\ line.ops[1].typ = "V"
    THEN [a |-> [a EXCEPT !.Labels = (line.label :> line.ops[1]) @@ @], t |-> "END"]
    ELSE [a |-> Raise(a, "illegal label assignment"), t |-> "END"]

assembleBreakpoint(a, reason, conditional) ==
    [a EXCEPT !.Breakpoints = Append(a.Breakpoints,
                                     Breakpoint(Here(a), reason, conditional, FALSE))]

\* Variant of assembleSuper that accepts the directive anywhere.
assembleSuper_anywhere(a, tokens) ==
    IF tokens # <<>> THEN Raise(a, "unexpected token")
    ELSE [a EXCEPT !.Super = TRUE]

assembleSuper(a, tokens) ==
    IF tokens # <<>> THEN Raise(a, "unexpected token")
    ELSE IF Here(a) > a.Base THEN Raise(a, "super must come before instructions")
    ELSE [a EXCEPT !.Super = TRUE]

assembleExtended(a, tokens) ==
    IF tokens # <<>> THEN Raise(a, "unexpected token")
    ELSE IF Here(a) > a.Base THEN Raise(a, "extended must come before instructions")
    ELSE [a EXCEPT !.Extended = TRUE]

\* assembleOperand: [a, t], the assembly and the expanded token.
assembleOperand(a, t) ==
    IF t.typ # "ID" THEN [a |-> a, t |-> t]
    ELSE IF t.id \in DOMAIN a.Labels THEN [a |-> a, t |-> a.Labels[t.id]]
    ELSE [a |-> [a EXCEPT !.Unresolved = (Here(a) :> t.id) @@ @],
          t |-> TOKEN_LIT(DefaultBase)]

\* assembleOperands: [a, ops, ok].  Matching is its loop from operand i on,
\* Matched the loop body after its call of assembleOperand, which returned r.
RECURSIVE Matching(_, _, _, _, _)
RECURSIVE Matched(_, _, _, _, _)
Matching(a, ops, tokens, m, i) ==
    IF i > Len(m) THEN [a |-> a, ops |-> ops, ok |-> TRUE]
    ELSE Matched(assembleOperand(a, tokens[i]), ops, tokens, m, i)

Matched(r, ops, tokens, m, i) ==
    IF r.t.typ # m[i] THEN [a |-> r.a, ops |-> <<>>, ok |-> FALSE]
    ELSE Matching(r.a, Append(ops, r.t), tokens, m, i + 1)

assembleOperands(a, tokens, m) ==
    IF Len(tokens) # Len(m) THEN [a |-> a, ops |-> <<>>, ok |-> FALSE]
    ELSE Matching(a, <<>>, tokens, m, 1)

\* One operand form of a mnemonic: the token types m it takes, the mode
\* ("SUPER", "EXTENDED" or "") that guards it, the opcode word and the way
\* enc the operands go into the word.
Form(m, mode, word, enc) == [m |-> m, mode |-> mode, word |-> word, enc |-> enc]

\* The forms assembleCLS ... assembleLD try, in their order.
Forms(i) ==
    CASE i = "CLS" -> <<Form(<<>>, "", 224, "none")>>
      [] i = "RET" -> <<Form(<<>>, "", 238, "none")>>
      [] i = "EXIT" -> <<Form(<<>>, "SUPER", 253, "none")>>
      [] i = "LOW" -> <<Form(<<>>, "SUPER", 254, "none")>>
      [] i = "HIGH" -> <<Form(<<>>, "SUPER", 255, "none")>>
      [] i = "SCU" -> <<Form(<<"LIT">>, "SUPER", 176, "n")>>
      [] i = "SCD" -> <<Form(<<"LIT">>, "SUPER", 192, "n")>>
      [] i = "SCR" -> <<Form(<<>>, "SUPER", 251, "none")>>
      [] i = "SCL" -> <<Form(<<>>, "SUPER", 252, "none")>>
      [] i = "SYS" -> <<Form(<<"LIT">>, "", 0, "a")>>
      [] i = "JP" -> <<Form(<<"LIT">>, "", 4096, "a"),
                       Form(<<"V", "LIT">>, "", 45056, "v0a")>>
      [] i = "CALL" -> <<Form(<<"LIT">>, "", 8192, "a")>>
      [] i = "SE" -> <<Form(<<"V", "LIT">>, "", 12288, "xb"),
                       Form(<<"V", "V">>, "", 20480, "xy")>>
      [] i = "SNE" -> <<Form(<<"V", "LIT">>, "", 16384, "xb"),
                        Form(<<"V", "V">>, "", 36864, "xy")>>
      [] i = "SGT" -> <<Form(<<"V", "V">>, "EXTENDED", 20481, "xy")>>
      [] i = "SLT" -> <<Form(<<"V", "V">>, "EXTENDED", 20482, "xy")>>
      [] i = "SKP" -> <<Form(<<"V">>, "", 57502, "x")>>
      [] i = "SKNP" -> <<Form(<<"V">>, "", 57505, "x")>>
      [] i = "OR" -> <<Form(<<"V", "V">>, "", 32769, "xy")>>
      [] i = "AND" -> <<Form(<<"V", "V">>, "", 32770, "xy")>>
      [] i = "XOR" -> <<Form(<<"V", "V">>, "", 32771, "xy")>>
      [] i = "SHR" -> <<Form(<<"V">>, "", 32774, "xx")>>
      [] i = "SHL" -> <<Form(<<"V">>, "", 32782, "xx")>>
      [] i = "ADD" -> <<Form(<<"V", "LIT">>, "", 28672, "xb"),
                        Form(<<"V", "V">>, "", 32772, "xy"),
                        Form(<<"I", "V">>, "", 61470, "-x")>>
      [] i = "SUB" -> <<Form(<<"V", "V">>, "", 32773, "xy")>>
      [] i = "SUBN" -> <<Form(<<"V", "V">>, "", 32775, "xy")>>
      [] i = "MUL" -> <<Form(<<"V", "V">>, "EXTENDED", 36865, "xy")>>
      [] i = "DIV" -> <<Form(<<"V", "V">>, "EXTENDED", 36866, "xy")>>
      [] i = "BCD" -> <<Form(<<"V">>, "", 61491, "x"),
                        Form(<<"V", "V">>, "EXTENDED", 36867, "xy")>>
      [] i = "RND" -> <<Form(<<"V", "LIT">>, "", 49152, "xb")>>
      [] i = "DRW" -> <<Form(<<"V", "V", "LIT">>, "", 53248, "xyn")>>
      [] i = "LD" -> <<Form(<<"V", "LIT">>, "", 24576, "xb"),
                       Form(<<"V", "V">>, "", 32768, "xy"),
                       Form(<<"I", "LIT">>, "", 40960, "-a"),
                       Form(<<"V", "DT">>, "", 61447, "x"),
                       Form(<<"V", "K">>, "", 61450, "x"),
                       Form(<<"DT", "V">>, "", 61461, "-x"),
                       Form(<<"ST", "V">>, "", 61464, "-x"),
                       Form(<<"F", "V">>, "", 61481, "-x"),
                       Form(<<"EFFECTIVE_ADDRESS", "V">>, "", 61525, "-x"),
                       Form(<<"V", "EFFECTIVE_ADDRESS">>, "", 61541, "x"),
                       Form(<<"HF", "V">>, "SUPER", 61488, "-x"),
                       Form(<<"R", "V">>, "SUPER", 61557, "-r"),
                       Form(<<"V", "R">>, "SUPER", 61573, "r"),
                       Form(<<"ASCII", "V">>, "EXTENDED", 61588, "-x")>>
      [] OTHER -> <<>>

\* The word a form gives for the operands ops, NoInst where the form's test
\* of a value fails.  In enc, - skips the first operand; n is a nibble, a an
\* address, b a byte, x and y registers and r one of the registers V0..V7.
Encode(f, ops) ==
    CASE f.enc = "none" -> f.word
      [] f.enc = "n" -> IF ops[1].val < 16 THEN f.word + ops[1].val ELSE NoInst
      [] f.enc = "a" -> IF ops[1].val < 4096 THEN f.word + ops[1].val ELSE NoInst
      [] f.enc = "-a" -> IF ops[2].val < 4096 THEN f.word + ops[2].val ELSE NoInst
      [] f.enc = "v0a" -> IF ops[1].val = 0 /\ ops[2].val < 4096
                          THEN f.word + ops[2].val ELSE NoInst
      [] f.enc = "xb" -> IF ops[2].val < 256
                         THEN Word(f.word, ops[1].val, 0) + ops[2].val ELSE NoInst
      [] f.enc = "xy" -> Word(f.word, ops[1].val, ops[2].val)
      [] f.enc = "xx" -> Word(f.word, ops[1].val, ops[1].val)
      [] f.enc = "x" -> Word(f.word, ops[1].val, 0)
      [] f.enc = "-x" -> Word(f.word, ops[2].val, 0)
      [] f.enc = "r" -> IF ops[1].val < 8 THEN Word(f.word, ops[1].val, 0) ELSE NoInst
      [] f.enc = "-r" -> IF ops[2].val < 8 THEN Word(f.word, ops[2].val, 0) ELSE NoInst
      [] f.enc = "xyn" -> IF ops[3].val < 16
                          THEN Word(f.word, ops[1].val, ops[2].val) + ops[3].val
                          ELSE NoInst

\* assembleCLS ... assembleLD from the k-th form on: the first form whose
\* mode is on, whose operands match and whose values pass emits its word;
\* with none, the instruction is illegal.
RECURSIVE assembleForms(_, _, _, _)
assembleForms(a, forms, tokens, k) ==
    IF k > Len(forms) THEN Raise(a, "illegal instruction")
    ELSE IF \/ forms[k].mode = "SUPER" /\ ~a.Super
            \/ forms[k].mode = "EXTENDED" /\ ~a.Extended
    THEN assembleForms(a, forms, tokens, k + 1)
    ELSE LET r == assembleOperands(a, tokens, forms[k].m)
         IN  IF r.ok /\ Encode(forms[k], r.ops) # NoInst
             THEN Emit(r.a, <<Encode(forms[k], r.ops) \div 256,
                              Encode(forms[k], r.ops) % 256>>)
             ELSE assembleForms(r.a, forms, tokens, k + 1)

\* assembleBYTE from operand k on, b the bytes so far.  The byte appended is
\* that of the token as written, whose value is no number when the token is a
\* reference to a label.
RECURSIVE assembleBYTE(_, _, _, _)
assembleBYTE(a, tokens, b, k) ==
    IF k > Len(tokens) THEN Emit(a, b)
    ELSE LET op == assembleOperand(a, tokens[k])
         IN  IF op.t.typ # "LIT" THEN assembleBYTE(op.a, tokens, b, k + 1)
             ELSE IF op.t.val > 255 THEN Raise(op.a, "invalid byte")
             ELSE IF tokens[k].typ # "LIT" THEN Raise(op.a, "interface conversion")
             ELSE assembleBYTE(op.a, tokens, Append(b, Byte(tokens[k].val)), k + 1)

\* assembleWORD from operand k on, b the bytes so far.
RECURSIVE assembleWORD(_, _, _, _)
assembleWORD(a, tokens, b, k) ==
    IF k > Len(tokens) THEN Emit(a, b)
    ELSE LET op == assembleOperand(a, tokens[k])
         IN  IF op.t.typ # "LIT" \/ op.t.val > 65535 THEN Raise(op.a, "invalid word")
             ELSE assembleWORD(op.a, tokens,
                               b \o <<(op.t.val \div 256) % 256, op.t.val % 256>>, k + 1)

\* k zero bytes
Zeros(k) == [j \in 1..k |-> 0]

\* assembleALIGN: n & (n-1) is 0 for n = 0 too, where n - 1 is -1, the
\* offset is len(a.ROM) and make([]byte, pad) panics on the negative pad.
assembleALIGN(a, tokens) ==
    LET r == assembleOperands(a, tokens, <<"LIT">>)
    IN  IF ~r.ok THEN Raise(r.a, "illegal alignment")
        ELSE IF r.ops[1].val = 0 THEN Raise(r.a, "makeslice: len out of range")
        ELSE IF BitAnd(r.ops[1].val, r.ops[1].val - 1) # 0
        THEN Raise(r.a, "illegal alignment")
        ELSE Emit(r.a, Zeros(r.ops[1].val - BitAnd(Here(a), r.ops[1].val - 1)))

assemblePAD(a, tokens) ==
    LET r == assembleOperands(a, tokens, <<"LIT">>)
    IN  IF r.ok /\ r.ops[1].val < MemSize - Here(a) THEN Emit(r.a, Zeros(r.ops[1].val))
        ELSE Raise(r.a, "illegal size")

\* assembleASCII, whose operands must be text.
assembleASCII(a, tokens) ==
    IF ~a.Extended THEN Raise(a, "illegal directive")
    ELSE IF tokens = <<>> THEN a
    ELSE Raise(assembleOperand(a, tokens[1]).a, "expected ascii string")

Directives == {"ASCII", "BYTE", "WORD", "ALIGN", "PAD"}

assembleInstruction(a, i, tokens) ==
    CASE i = "ASCII" -> assembleASCII(a, tokens)
      [] i = "BYTE" -> assembleBYTE(a, tokens, <<>>, 1)
      [] i = "WORD" -> assembleWORD(a, tokens, <<>>, 1)
      [] i = "ALIGN" -> assembleALIGN(a, tokens)
      [] i = "PAD" -> assemblePAD(a, tokens)
      [] i \notin Directives /\ Forms(i) # <<>> -> assembleForms(a, Forms(i), tokens, 1)
      [] OTHER -> a

\* The switch of assemble on the token t that follows the label, if any.
assembleToken(a, t, line) ==
    IF a.err # "" THEN a
    ELSE CASE t = "INSTRUCTION" -> assembleInstruction(a, line.i, line.ops)
           [] t = "SUPER" -> assembleSuper(a, line.ops)
           [] t = "EXTENDED" -> assembleExtended(a, line.ops)
           [] t = "BREAK" -> assembleBreakpoint(a, line.reason, FALSE)
           [] t = "ASSERT" -> assembleBreakpoint(a, line.reason, TRUE)
           [] t = "END" -> a
           [] OTHER -> Raise(a, "unexpected token")

\* assemble: one line into the assembly a.
assemble(a, line) ==
    IF line.label = "" THEN assembleToken(a, line.t, line)
    ELSE assembleToken(assembleLabel(a, line).a, assembleLabel(a, line).t, line)

\* The loop of Assemble over the lines: line counts them from 1, and a panic
\* ends the loop.
RECURSIVE assembleAll(_, _)
assembleAll(a, lines) ==
    IF a.err # "" THEN a
    ELSE IF lines = <<>> THEN [a EXCEPT !.line = @ + 1]
    ELSE assembleAll(assemble([a EXCEPT !.line = @ + 1], Head(lines)), Tail(lines))

\* The unresolved addresses whose label has been defined by the end.
Defined(a) == {ad \in DOMAIN a.Unresolved : a.Unresolved[ad] \in DOMAIN a.Labels}

\* ROM[ad] = msb | ROM[ad] & 0xF0 and ROM[ad+1] = lsb for the value val; k is
\* the place of a byte in a.ROM and old the byte there.
Fixup(a, k, old) ==
    IF a.Base + k - 1 \in Defined(a)
    THEN BitOr((a.Labels[a.Unresolved[a.Base + k - 1]].val \div 256) % 256,
               BitAnd(old, 240))
    ELSE IF a.Base + k - 2 \in Defined(a)
    THEN a.Labels[a.Unresolved[a.Base + k - 2]].val % 256
    ELSE old

\* The two loops of Assemble over a.Unresolved.  No source of the model
\* leaves two unresolved addresses next to each other, where the outcome
\* would depend on the order of the first loop.
Resolve(a) ==
    IF a.err # "" THEN a
    ELSE IF \E ad \in Defined(a) : a.Labels[a.Unresolved[ad]].typ # "LIT"
    THEN Raise(a, "label does not resolve to address!")
    ELSE IF \E ad \in Defined(a) : ad + 1 >= Here(a)
    THEN Raise(a, "index out of range")
    ELSE IF DOMAIN a.Unresolved # Defined(a)
    THEN Raise([a EXCEPT !.line = 0], "unresolved label")
    ELSE [a EXCEPT !.ROM = [k \in 1..Len(a.ROM) |-> Fixup(a, k, a.ROM[k])],
                   !.Unresolved = Zero,
                   !.line = 0]

\* The ROM the assembler returns with an error, a data blob of the
\* repository: here the two bytes of JP 200.
Dummy == [len |-> 2, bytes |-> (0 :> 18)]

\* What Assemble returns for the assembly a: [ROM, Breakpoints, Labels, err,
\* line], where err is "" for a nil error and line the line the error names
\* (0: none).
Returned_partial(a) ==
    [ROM |-> [len |-> Len(a.ROM),
              bytes |-> [o \in {k - 1 : k \in {j \in 1..Len(a.ROM) : a.ROM[j] # 0}}
                         |-> a.ROM[o + 1]]],
     Breakpoints |-> a.Breakpoints, Labels |-> a.Labels, err |-> a.err,
     line |-> IF a.err = "" THEN 0 ELSE a.line]
Returned(a) ==
    IF a.err # ""
    THEN [ROM |-> Dummy, Breakpoints |-> <<>>, Labels |-> Zero, err |-> a.err,
          line |-> a.line]
    ELSE [ROM |-> [len |-> Len(a.ROM),
                   bytes |-> [o \in {k - 1 : k \in {j \in 1..Len(a.ROM) : a.ROM[j] # 0}}
                              |-> a.ROM[o + 1]]],
          Breakpoints |-> a.Breakpoints, Labels |-> a.Labels, err |-> "", line |-> 0]

\* Assemble, up to the end of its loop over the lines of the source.
Assembled(lines, eti) ==
    assembleAll(
        [ROM |-> <<>>, Breakpoints |-> <<>>, Labels |-> Zero, Unresolved |-> Zero,
         Base |-> BaseOf(eti), Super |-> FALSE, Extended |-> FALSE, line |-> 0,
         err |-> ""], lines)

\* Assemble: what it returns for a source file.
Assemble(lines, eti) == Returned(Resolve(Assembled(lines, eti)))

\* LoadFile for a source file that assembles and fits (for another one,
\* LoadFile returns the error and no machine).
LoadFile(f, eti, t) == LoadAssembly(Assemble(f.lines, eti), eti, t)

\* load (src/main.go) gives [vm, err, line]: the machine of the file or, with
\* an error, the machine of the dummy ROM.  asm is what Assemble returned.
loadAssembled(asm, eti, t) ==
    IF asm.err = "" /\ Fits(asm.ROM, eti)
    THEN [vm |-> LoadAssembly(asm, eti, t), err |-> "", line |-> 0]
    ELSE [vm |-> LoadROM(Dummy, FALSE, t),
          err |-> IF asm.err = "" THEN "program too large" ELSE asm.err,
          line |-> asm.line]
load(f, eti, t) == loadAssembled(Assemble(f.lines, eti), eti, t)

\* Breakpoint.Error(): the line the log gets.
Error(b) == [assert |-> b.Conditional, at |-> b.Address, reason |-> b.Reason]

-----------------------------------------------------------------------------
(* The source files the model loads.  Addresses are those of a program     *)
(* loaded at 0x200.                                                        *)

\* 200 CALL 200
Recurse == [name |-> "recurse", lines |-> <<INST(8704)>>]

\* 200 CALL 206 / 202 LD V1,K / 204 JP 200 / 206 CALL 20A / 208 RET /
\* BREAK inner / 20A RET
Nest == [name |-> "nest",
         lines |-> <<INST(8710), INST(61706), INST(4608), INST(8714), INST(238),
                     BREAK("inner"), INST(238)>>]

\* BREAK start / 200 ADD V0,1 / 202 JP 200
First == [name |-> "first", lines |-> <<BREAK("start"), INST(28673), INST(4608)>>]

\* 200 RET
Underflow == [name |-> "underflow", lines |-> <<INST(238)>>]

\* 200 LD V0,FF / 202 JP V0,FFF
Far == [name |-> "far", lines |-> <<INST(24831), INST(49151)>>]

\* 200 LD I,FFE / 202 LD V0,60 / 204 LD [I],V1 / 206 JP FFE, where the
\* program has put 6000 (LD V0,0)
Top == [name |-> "top", lines |-> <<INST(45054), INST(24672), INST(61781), INST(8190)>>]

\* 200 LD V0,1 / 202 SYS 123
Sys == [name |-> "sys", lines |-> <<INST(24577), INST(291)>>]

\* 200 E000 (no instruction) / 202 LD V0,1 / BREAK after / 204 JP 204
Invalid == [name |-> "invalid",
            lines |-> <<INST(57344), INST(24577), BREAK("after"), INST(4612)>>]

\* 200 LD I,200 / 202 LD V0,12 / 204 LD [I],V0 / 206 JP 206
SelfMod == [name |-> "selfmod",
            lines |-> <<INST(41472), INST(24594), INST(61525), INST(4614)>>]

\* 200 LD V0,3 / 202 LD DT,V0 / 204 LD V0,1 / 206 LD ST,V0 / 208 LD V1,DT /
\* 20A JP 208
Timers == [name |-> "timers",
           lines |-> <<INST(24579), INST(61461), INST(24577), INST(61464), INST(61703),
                       INST(4616)>>]

\* 200 LD V0,FF / 202 SHL V0 / ASSERT carry / 204 LD VF,0 /
\* ASSERT clear / 206 HIGH / 208 DRW V1,V1,5 / 20A LD R,V0 / 20C JP 200
Carry == [name |-> "carry",
          lines |-> <<INST(24831), INST(32782), ASSERT("carry"), INST(28416),
                      ASSERT("clear"), INST(255), INST(53525), INST(61557), INST(4608)>>]

\* 200 LD I,FFC / 202 LD V0,F1 / 204 LD V1,0A / 206 LD V2,22 / 208 LD V3,0 /
\* 20A LD [I],V3 / 20C JP FFC, where the program has put FFC LD V1,K /
\* FFE CALL 200
Last == [name |-> "last",
         lines |-> <<INST(45052), INST(24817), INST(24842), INST(25122), INST(25344),
                     INST(62293), INST(8188)>>]

\* 200 LD V0,1 / 202 EXIT
Exit == [name |-> "exit", lines |-> <<INST(24577), INST(253)>>]

Files == {Recurse, Nest, First, Underflow, Far, Top, Sys, Invalid, SelfMod, Timers, Carry,
          Last, Exit}

-----------------------------------------------------------------------------
(* The event loop (src/main.go)                                            *)

\* The -eti flag.
ETI == FALSE
\* The gaps between two served ticks, the keypad keys the user presses and
\* the values rand.Intn(256) returns.
Delays == {ShortDelay, LongDelay}
HostKeys == {NumKeys - i : i \in 1..NumHostKeys}
Rnds == {0, 255}

Call(op, kind, bp, steps, paused) ==
    [op |-> op, kind |-> kind, bp |-> bp, steps |-> steps, paused |-> paused]

Init ==
    /\ file \in Files
    /\ VM = LoadFile(file, ETI, 0)
    /\ Paused = FALSE
    /\ Log = {}
    /\ now = 0
    /\ host = "running"
    /\ last = Call("LoadFile", "ok", NoBreak, 0, FALSE)
    /\ events = 0

\* The switch on the result r of Process.
Served(r) ==
    /\ VM' = r.vm
    /\ last' = Call("Process", r.kind, r.bp, r.steps, Paused)
    /\ host' = IF r.kind = "panic" THEN "crashed" ELSE host
    /\ Paused' = IF r.kind = "break" THEN TRUE ELSE Paused
    /\ Log' = IF r.kind = "break" /\ ~r.bp.Once THEN Log \cup {Error(r.bp)} ELSE Log

\* case <-clock.C, served d ms after the last one: VM.Process(Paused), and the
\* switch on its result.  A panic unwinds main.
ClockTick(d) ==
    /\ host = "running"
    /\ now + d <= MaxNow
    /\ now' = now + d
    /\ \E rnd \in Rnds : Served(Process(VM, Paused, now + d, rnd))
    /\ UNCHANGED <<file, events>>

\* processEvents takes one more event off the queue.
Event == events < MaxEvents /\ events' = events + 1

\* A key of the keypad goes down.
KeyDown(k) ==
    /\ host = "running"
    /\ Event
    /\ VM' = PressKey(VM, k)
    /\ last' = Call("PressKey", "ok", NoBreak, 0, Paused)
    /\ UNCHANGED <<Paused, Log, now, file, host>>

\* A key of the keypad goes up.
KeyUp(k) ==
    /\ host = "running"
    /\ Event
    /\ VM' = ReleaseKey(VM, k)
    /\ last' = Call("ReleaseKey", "ok", NoBreak, 0, Paused)
    /\ UNCHANGED <<Paused, Log, now, file, host>>

\* F5 / SPACE
TogglePause ==
    /\ host = "running"
    /\ Event
    /\ Paused' = ~Paused
    /\ last' = Call("Pause", "ok", NoBreak, 0, Paused)
    /\ UNCHANGED <<VM, Log, now, file, host>>

\* VM.Step() from a key handler returned r, which the handler drops.
SingleStepped(r) ==
    /\ VM' = r.vm
    /\ last' = Call("Step", r.kind, r.bp, 1, Paused)
    /\ host' = IF r.kind = "panic" THEN "crashed" ELSE host

\* F7 / F11 without SHIFT: VM.Step(), its result dropped.
StepKey ==
    /\ host = "running"
    /\ Event
    /\ Paused
    /\ \E rnd \in Rnds : SingleStepped(Step(VM, now, rnd))
    /\ UNCHANGED <<Paused, Log, now, file>>

\* The F6 handler after StepOverBreakpoint, which returned so.
SteppedOver(so) ==
    IF so.fault # ""
    THEN /\ host' = "crashed"
         /\ last' = Call("StepOver", "panic", NoBreak, 0, Paused)
         /\ UNCHANGED <<VM, Paused>>
    ELSE IF so.ok
    THEN /\ VM' = so.vm
         /\ Paused' = FALSE
         /\ last' = Call("StepOver", "ok", NoBreak, 0, Paused)
         /\ UNCHANGED host
    ELSE /\ \E rnd \in Rnds : SingleStepped(Step(so.vm, now, rnd))
         /\ UNCHANGED Paused

\* F6 / F10
StepOverKey ==
    /\ host = "running"
    /\ Event
    /\ Paused
    /\ SteppedOver(StepOverBreakpoint(VM))
    /\ UNCHANGED <<Log, now, file>>

UserBreaks(vm) ==
    {a \in DOMAIN vm.Breakpoints : vm.Breakpoints[a].Reason = "User break"}

\* F9
ToggleBreakpointKey ==
    /\ host = "running"
    /\ Event
    /\ Paused
    /\ VM.PC \in DOMAIN VM.Breakpoints \/ Cardinality(UserBreaks(VM)) < MaxUserBreaks
    /\ VM' = ToggleBreakpoint(VM)
    /\ last' = Call("ToggleBreakpoint", "ok", NoBreak, 0, Paused)
    /\ UNCHANGED <<Paused, Log, now, file, host>>

\* BACKSPACE, with or without CTRL: reboot(breakOnReset).
Reboot(breakOnReset) ==
    /\ host = "running"
    /\ Event
    /\ Paused' = breakOnReset
    /\ VM' = Reset(VM, now)
    /\ last' = Call("Reset", "ok", NoBreak, 0, Paused)
    /\ UNCHANGED <<Log, now, file, host>>

\* F2: load(File).
Reload ==
    /\ host = "running"
    /\ Event
    /\ VM' = LoadFile(file, ETI, now)
    /\ last' = Call("LoadFile", "ok", NoBreak, 0, Paused)
    /\ UNCHANGED <<Paused, Log, now, file, host>>

\* [ and ]
SpeedInWindow(vm) ==
    /\ vm.Speed >= DefaultSpeed - MaxSpeedSteps * SpeedStep
    /\ vm.Speed <= DefaultSpeed + MaxSpeedSteps * SpeedStep

DecSpeedKey ==
    /\ host = "running"
    /\ Event
    /\ SpeedInWindow(DecSpeed(VM, now))
    /\ VM' = DecSpeed(VM, now)
    /\ last' = Call("DecSpeed", "ok", NoBreak, 0, Paused)
    /\ UNCHANGED <<Paused, Log, now, file, host>>

IncSpeedKey ==
    /\ host = "running"
    /\ Event
    /\ SpeedInWindow(IncSpeed(VM, now))
    /\ VM' = IncSpeed(VM, now)
    /\ last' = Call("IncSpeed", "ok", NoBreak, 0, Paused)
    /\ UNCHANGED <<Paused, Log, now, file, host>>

Next ==
    \/ \E d \in Delays : ClockTick(d)
    \/ \E k \in HostKeys : KeyDown(k)
    \/ \E k \in HostKeys : KeyUp(k)
    \/ TogglePause
    \/ StepKey
    \/ StepOverKey
    \/ ToggleBreakpointKey
    \/ \E c \in BOOLEAN : Reboot(c)
    \/ Reload
    \/ DecSpeedKey
    \/ IncSpeedKey

Spec == Init /\ [][Next]_vars

-----------------------------------------------------------------------------
(* The arithmetic instructions, one at a time.  The machine has loaded an   *)
(* empty program and executed LD V0,a / LD V1,b / LD VF,c / LD I,i; each    *)
(* action is the decoding and execution of one more instruction word.       *)

\* An empty source file.
Blank == [name |-> "blank", lines |-> <<>>]

\* The registers the instructions name and the values the program has loaded.
OpRegs == {0, 1, 15}
AluVals == {0, 7, 255}
AluIs == {0, MemSize - 1}

\* 8xy4 ADD, 8xy5 SUB, 8xy6 SHR, 8xy7 SUBN, 8xyE SHL, 9xy1 MUL, 9xy2 DIV
AluOps == {32772, 32773, 32774, 32775, 32782, 36865, 36866}
\* Fx1E ADD I,Vx / Fx29 LD F,Vx / Fx30 LD HF,Vx
IndexOps == {61470, 61481, 61488}

LoadedV(vm, a, b, c) == loadX(loadX(loadX(vm, 0, a).vm, 1, b).vm, 15, c).vm

AluInit ==
    /\ file = Blank
    /\ \E a \in AluVals, b \in AluVals, c \in AluVals, i \in AluIs :
          VM = loadI(LoadedV(LoadFile(Blank, ETI, 0), a, b, c), i).vm
    /\ Paused = TRUE
    /\ Log = {}
    /\ now = 0
    /\ host = "running"
    /\ last = Call(NoInst, "ok", NoBreak, 0, TRUE)
    /\ events = 0

\* The instruction word inst was decoded and executed with result r, as one
\* of at most max instructions.
Ran(max, inst, r) ==
    /\ host = "running"
    /\ events < max
    /\ events' = events + 1
    /\ VM' = r.vm
    /\ last' = Call(inst, r.kind, NoBreak, 1, Paused)
    /\ host' = IF r.kind = "panic" THEN "crashed" ELSE host
    /\ UNCHANGED <<Paused, Log, now, file>>

Arith == \E op \in AluOps, x \in OpRegs, y \in OpRegs :
            Ran(MaxInsts, Word(op, x, y), Decode(VM, Word(op, x, y), now, 0))

Index == \E op \in IndexOps, x \in OpRegs :
            Ran(MaxInsts, Word(op, x, 0), Decode(VM, Word(op, x, 0), now, 0))

AluNext == Arith \/ Index

AluSpec == AluInit /\ [][AluNext]_vars

-----------------------------------------------------------------------------
(* The graphics instructions, one at a time.  The machine has loaded a      *)
(* program that is the data of a sprite and executed LD V0,a / LD V1,b /    *)
(* LD I,i; each action is the decoding and execution of one more            *)
(* instruction word.                                                        *)

\* 200 FF 81: two rows of a sprite; the memory behind them is 0.
Sprite == [name |-> "sprite", lines |-> <<INST(65409)>>]

\* The coordinates the program has loaded, and where I points: at the sprite
\* or at memory that holds only zeros.
XVals == {0, 60}
YVals == {0, 31, 255}
SpriteIs == {DefaultBase, DefaultBase + 256}
\* The registers DRW names.
DrawRegs == {0, 1}

\* Dxyn DRW Vx,Vy,n (n = 0: a 16x16 sprite)
DrawOp == 53248
\* 00Bn SCU n / 00Cn SCD n
ScrollOps == {176, 192}
\* The n of SCU n / SCD n: one row in low resolution, two in high.
ScrollRows == {2}
\* 00E0 CLS / 00FE LOW / 00FF HIGH
ScreenOps == {224, 254, 255}

GfxInit ==
    /\ file = Sprite
    /\ \E a \in XVals, b \in YVals, i \in SpriteIs :
          VM = loadI(LoadedV(LoadFile(Sprite, ETI, 0), a, b, 0), i).vm
    /\ Paused = TRUE
    /\ Log = {}
    /\ now = 0
    /\ host = "running"
    /\ last = Call(NoInst, "ok", NoBreak, 0, TRUE)
    /\ events = 0

Draw == \E x \in DrawRegs, y \in DrawRegs, n \in 0..MaxRows :
            Ran(MaxGfx, Word(DrawOp + n, x, y), Decode(VM, Word(DrawOp + n, x, y), now, 0))

Scroll == \E op \in ScrollOps, n \in ScrollRows :
            Ran(MaxGfx, op + n, Decode(VM, op + n, now, 0))

Screen == \E op \in ScreenOps : Ran(MaxGfx, op, Decode(VM, op, now, 0))

GfxNext == Draw \/ Scroll \/ Screen

GfxSpec == GfxInit /\ [][GfxNext]_vars

-----------------------------------------------------------------------------------------------------------------------------------------------------
(* The assembler and the loader on source files.  The user has written a   *)
(* source file of a few lines, and the one action loads it.                *)

Op(i, ops) == SourceLine("", "INSTRUCTION", i, ops, "")

\* Lines that define and reference the labels L and M, and a line the
\* assembler rejects.
\*   JP L / SYS L / CALL M / JP V0,L / LD I,M / WORD 7,L / WORD L,M /
\*   L CLS / M / LD V0,300 / BREAK here
LabelLines ==
    {Op("JP", <<TOKEN_ID("L")>>), Op("SYS", <<TOKEN_ID("L")>>),
     Op("CALL", <<TOKEN_ID("M")>>), Op("JP", <<TOKEN_V(0), TOKEN_ID("L")>>),
     Op("LD", <<TOKEN("I"), TOKEN_ID("M")>>),
     Op("WORD", <<TOKEN_LIT(7), TOKEN_ID("L")>>),
     Op("WORD", <<TOKEN_ID("L"), TOKEN_ID("M")>>),
     SourceLine("L", "INSTRUCTION", "CLS", <<>>, ""),
     SourceLine("M", "END", "", <<>>, ""),
     Op("LD", <<TOKEN_V(0), TOKEN_LIT(300)>>), BREAK("here")}

\* The instructions of the Super-CHIP and CHIP-8E sets.
\*   EXIT / LOW / HIGH / SCU 1 / SCD 1 / SCR / SCL / DRW V0,V1,0 / LD HF,V1 /
\*   LD R,V1 / LD V1,R
SuperLines ==
    {Op("EXIT", <<>>), Op("LOW", <<>>), Op("HIGH", <<>>), Op("SCU", <<TOKEN_LIT(1)>>),
     Op("SCD", <<TOKEN_LIT(1)>>), Op("SCR", <<>>), Op("SCL", <<>>),
     Op("DRW", <<TOKEN_V(0), TOKEN_V(1), TOKEN_LIT(0)>>),
     Op("LD", <<TOKEN("HF"), TOKEN_V(1)>>), Op("LD", <<TOKEN("R"), TOKEN_V(1)>>),
     Op("LD", <<TOKEN_V(1), TOKEN("R")>>)}
\*   SGT V0,V1 / SLT V0,V1 / MUL V0,V1 / DIV V0,V1 / BCD V0,V1 / LD A,V1
ExtendedLines ==
    {Op("SGT", <<TOKEN_V(0), TOKEN_V(1)>>), Op("SLT", <<TOKEN_V(0), TOKEN_V(1)>>),
     Op("MUL", <<TOKEN_V(0), TOKEN_V(1)>>), Op("DIV", <<TOKEN_V(0), TOKEN_V(1)>>),
     Op("BCD", <<TOKEN_V(0), TOKEN_V(1)>>), Op("LD", <<TOKEN("ASCII"), TOKEN_V(1)>>)}
\* The two directives, an instruction of the base set and a byte of data.
ModeLines ==
    SuperLines \cup ExtendedLines \cup
    {SourceLine("", "SUPER", "", <<>>, ""), SourceLine("", "EXTENDED", "", <<>>, ""),
     Op("CLS", <<>>), Op("BYTE", <<TOKEN_LIT(1)>>)}

\* Data and alignments.
\*   BYTE 1 / BYTE 1,2,3 / ALIGN 0 / ALIGN 1 / ALIGN 2 / ALIGN 3 / ALIGN 4
AlignLines ==
    {Op("BYTE", <<TOKEN_LIT(1)>>),
     Op("BYTE", <<TOKEN_LIT(1), TOKEN_LIT(2), TOKEN_LIT(3)>>)}
    \cup {Op("ALIGN", <<TOKEN_LIT(n)>>) : n \in 0..4}

\* Lines that bind X to the literal 4 and REG to V1, and lines that name X
\* and REG.
\*   X EQU 4 / REG VAR V1 / LD V0,X / LD REG,3 / ADD REG,REG / BYTE X /
\*   WORD X / ALIGN X / PAD X / BYTE 1
BoundLines ==
    {SourceLine("X", "EQU", "", <<TOKEN_LIT(4)>>, ""),
     SourceLine("REG", "VAR", "", <<TOKEN_V(1)>>, ""),
     Op("LD", <<TOKEN_V(0), TOKEN_ID("X")>>), Op("LD", <<TOKEN_ID("REG"), TOKEN_LIT(3)>>),
     Op("ADD", <<TOKEN_ID("REG"), TOKEN_ID("REG")>>), Op("BYTE", <<TOKEN_ID("X")>>),
     Op("WORD", <<TOKEN_ID("X")>>), Op("ALIGN", <<TOKEN_ID("X")>>),
     Op("PAD", <<TOKEN_ID("X")>>), Op("BYTE", <<TOKEN_LIT(1)>>)}

\* One line of every form of every instruction of the base set.
FormLines ==
    {Op("CLS", <<>>), Op("RET", <<>>), Op("SYS", <<TOKEN_LIT(564)>>),
     Op("JP", <<TOKEN_LIT(564)>>), Op("JP", <<TOKEN_V(0), TOKEN_LIT(564)>>),
     Op("CALL", <<TOKEN_LIT(564)>>),
     Op("SE", <<TOKEN_V(2), TOKEN_LIT(52)>>), Op("SE", <<TOKEN_V(2), TOKEN_V(3)>>),
     Op("SNE", <<TOKEN_V(2), TOKEN_LIT(52)>>), Op("SNE", <<TOKEN_V(2), TOKEN_V(3)>>),
     Op("SKP", <<TOKEN_V(2)>>), Op("SKNP", <<TOKEN_V(2)>>),
     Op("OR", <<TOKEN_V(2), TOKEN_V(3)>>), Op("AND", <<TOKEN_V(2), TOKEN_V(3)>>),
     Op("XOR", <<TOKEN_V(2), TOKEN_V(3)>>), Op("SHR", <<TOKEN_V(2)>>),
     Op("SHL", <<TOKEN_V(2)>>),
     Op("ADD", <<TOKEN_V(2), TOKEN_LIT(52)>>), Op("ADD", <<TOKEN_V(2), TOKEN_V(3)>>),
     Op("ADD", <<TOKEN("I"), TOKEN_V(2)>>),
     Op("SUB", <<TOKEN_V(2), TOKEN_V(3)>>), Op("SUBN", <<TOKEN_V(2), TOKEN_V(3)>>),
     Op("BCD", <<TOKEN_V(2)>>), Op("RND", <<TOKEN_V(2), TOKEN_LIT(52)>>),
     Op("DRW", <<TOKEN_V(2), TOKEN_V(3), TOKEN_LIT(4)>>),
     Op("LD", <<TOKEN_V(2), TOKEN_LIT(52)>>), Op("LD", <<TOKEN_V(2), TOKEN_V(3)>>),
     Op("LD", <<TOKEN("I"), TOKEN_LIT(564)>>), Op("LD", <<TOKEN_V(2), TOKEN("DT")>>),
     Op("LD", <<TOKEN_V(2), TOKEN("K")>>), Op("LD", <<TOKEN("DT"), TOKEN_V(2)>>),
     Op("LD", <<TOKEN("ST"), TOKEN_V(2)>>), Op("LD", <<TOKEN("F"), TOKEN_V(2)>>),
     Op("LD", <<TOKEN("EFFECTIVE_ADDRESS"), TOKEN_V(2)>>),
     Op("LD", <<TOKEN_V(2), TOKEN("EFFECTIVE_ADDRESS")>>)}

\* The sources of up to MaxLines lines of one of these sets, and the sources
\* of one instruction.
Upto(lines) == UNION {[1..n -> lines] : n \in 1..MaxLines}
Sources ==
    Upto(LabelLines) \cup Upto(ModeLines) \cup Upto(AlignLines) \cup Upto(BoundLines)
    \cup {<<l>> : l \in FormLines}
SourceFiles == {[name |-> "source", lines |-> s] : s \in Sources}

AsmInit ==
    /\ file \in SourceFiles
    /\ VM = LoadFile(Blank, ETI, 0)
    /\ Paused = TRUE
    /\ Log = {}
    /\ now = 0
    /\ host = "running"
    /\ last = Call("", "ok", NoBreak, 0, TRUE)
    /\ events = 0

\* load(File) with result r: the machine is replaced, and an error is logged
\* with its line.
Load_result(r) ==
    /\ host = "running"
    /\ events < 1
    /\ events' = events + 1
    /\ VM' = r.vm
    /\ Log' = IF r.err = "" THEN Log ELSE Log \cup {[line |-> r.line, err |-> r.err]}
    /\ last' = Call("load", IF r.err = "" THEN "ok" ELSE "error", NoBreak, 0, Paused)
    /\ UNCHANGED <<Paused, now, file, host>>

Load == Load_result(load(file, ETI, now))

AsmNext == Load

AsmSpec == AsmInit /\ [][AsmNext]_vars

-----------------------------------------------------------------------------
(* The disassembler (src/unnamed/part_007).  The text "AAAA - MNEMONIC     *)
(* OPERANDS" is the record [at, i, ops] of the address, the mnemonic and   *)
(* the operand tokens; #hhhh and %d print a literal, V%X a register.       *)

\* The address of the empty text.
NoAddress == MemSize

Text(at, i, ops) == [at |-> at, i |-> i, ops |-> ops]

\* The instruction decoding of Disassemble for the word inst # 0 at address at.
Mnemonic(at, inst) ==
    LET a == inst % 4096
        b == inst % 256
        n == inst % 16
        x == (inst \div 256) % 16
        y == (inst \div 16) % 16
        hi == inst \div 4096
    IN  CASE inst = 224 -> Text(at, "CLS", <<>>)
          [] inst = 238 -> Text(at, "RET", <<>>)
          [] hi = 0 /\ inst \notin {224, 238} -> Text(at, "SYS", <<TOKEN_LIT(a)>>)
          [] hi = 1 -> Text(at, "JP", <<TOKEN_LIT(a)>>)
          [] hi = 2 -> Text(at, "CALL", <<TOKEN_LIT(a)>>)
          [] hi = 3 -> Text(at, "SE", <<TOKEN_V(x), TOKEN_LIT(b)>>)
          [] hi = 4 -> Text(at, "SNE", <<TOKEN_V(x), TOKEN_LIT(b)>>)
          [] hi = 5 /\ n = 0 -> Text(at, "SE", <<TOKEN_V(x), TOKEN_V(y)>>)
          [] hi = 6 -> Text(at, "LD", <<TOKEN_V(x), TOKEN_LIT(b)>>)
          [] hi = 7 -> Text(at, "ADD", <<TOKEN_V(x), TOKEN_LIT(b)>>)
          [] hi = 8 /\ n = 0 -> Text(at, "LD", <<TOKEN_V(x), TOKEN_V(y)>>)
          [] hi = 8 /\ n = 1 -> Text(at, "OR", <<TOKEN_V(x), TOKEN_V(y)>>)
          [] hi = 8 /\ n = 2 -> Text(at, "AND", <<TOKEN_V(x), TOKEN_V(y)>>)
          [] hi = 8 /\ n = 3 -> Text(at, "XOR", <<TOKEN_V(x), TOKEN_V(y)>>)
          [] hi = 8 /\ n = 4 -> Text(at, "ADD", <<TOKEN_V(x), TOKEN_V(y)>>)
          [] hi = 8 /\ n = 5 -> Text(at, "SUB", <<TOKEN_V(x), TOKEN_V(y)>>)
          [] hi = 8 /\ n = 6 -> Text(at, "SHR", <<TOKEN_V(x)>>)
          [] hi = 8 /\ n = 7 -> Text(at, "SUBN", <<TOKEN_V(x), TOKEN_V(y)>>)
          [] hi = 8 /\ n = 14 -> Text(at, "SHL", <<TOKEN_V(x)>>)
          [] hi = 9 /\ n = 0 -> Text(at, "SNE", <<TOKEN_V(x), TOKEN_V(y)>>)
          [] hi = 10 -> Text(at, "LD", <<TOKEN("I"), TOKEN_V(x)>>)
          [] hi = 11 -> Text(at, "JP", <<TOKEN_V(0), TOKEN_LIT(a)>>)
          [] hi = 12 -> Text(at, "RND", <<TOKEN_V(x), TOKEN_LIT(b)>>)
          [] hi = 13 -> Text(at, "DRW", <<TOKEN_V(x), TOKEN_V(y), TOKEN_LIT(n)>>)
          [] hi = 14 /\ b = 158 -> Text(at, "SKP", <<TOKEN_V(x)>>)
          [] hi = 14 /\ b = 161 -> Text(at, "SKNP", <<TOKEN_V(x)>>)
          [] hi = 15 /\ b = 7 -> Text(at, "LD", <<TOKEN_V(x), TOKEN("DT")>>)
          [] hi = 15 /\ b = 10 -> Text(at, "LD", <<TOKEN_V(x), TOKEN("K")>>)
          [] hi = 15 /\ b = 21 -> Text(at, "LD", <<TOKEN("DT"), TOKEN_V(x)>>)
          [] hi = 15 /\ b = 24 -> Text(at, "LD", <<TOKEN("ST"), TOKEN_V(x)>>)
          [] hi = 15 /\ b = 30 -> Text(at, "ADD", <<TOKEN("I"), TOKEN_V(x)>>)
          [] hi = 15 /\ b = 41 -> Text(at, "LD", <<TOKEN("F"), TOKEN_V(x)>>)
          [] hi = 15 /\ b = 51 -> Text(at, "LD", <<TOKEN("B"), TOKEN_V(x)>>)
          [] hi = 15 /\ b = 85 -> Text(at, "LD", <<TOKEN("EFFECTIVE_ADDRESS"), TOKEN_V(x)>>)
          [] hi = 15 /\ b = 101 -> Text(at, "LD", <<TOKEN_V(x), TOKEN("EFFECTIVE_ADDRESS")>>)
          [] OTHER -> Text(at, "??", <<>>)

\* Disassemble(i): no text at all for an address at the end of the memory,
\* the address alone for the word 0.
Disassemble(vm, i) ==
    IF i >= MemSize - 1 THEN Text(NoAddress, "", <<>>)
    ELSE IF Get(vm.Memory, i) = 0 /\ Get(vm.Memory, i + 1) = 0 THEN Text(i, "", <<>>)
    ELSE Mnemonic(i, Get(vm.Memory, i) * 256 + Get(vm.Memory, i + 1))

-----
(* Properties                                                              *)

\* The 16-bit word at the PC of vm, and whether Step would fetch it.
InstAt(vm) == Get(vm.Memory, vm.PC) * 256 + Get(vm.Memory, vm.PC + 1)
Fetches(vm) == vm.W = NoReg /\ vm.PC + 1 < MemSize
Executed(r) == r.kind \in {"ok", "break"}

C1After(vm, r) ==
    (vm.W = NoReg /\ Executed(r)) =>
        LET pc == r.vm.PC
            fires == /\ pc \in DOMAIN vm.Breakpoints
                     /\ (~vm.Breakpoints[pc].Conditional \/ r.vm.V[15] # 0)
        IN  /\ (r.kind = "break") <=> fires
            /\ fires => /\ r.bp = vm.Breakpoints[pc]
                        /\ r.vm.Breakpoints =
                              IF vm.Breakpoints[pc].Once
                              THEN [a \in DOMAIN vm.Breakpoints \ {pc} |-> vm.Breakpoints[a]]
                              ELSE vm.Breakpoints
            /\ ~fires => r.vm.Breakpoints = vm.Breakpoints

\* C1: a Step that executes an instruction returns a Breakpoint exactly when
\* the breakpoint map holds, at the PC the instruction left, an entry that is
\* not conditional or is conditional with VF # 0 (VF as the instruction left
\* it); it returns that entry; the entry is deleted exactly when it is a once
\* breakpoint, and when no breakpoint fires the map is unchanged.
C1_BreakIffFires == \A rnd \in Rnds : C1After(VM, Step(VM, now, rnd))

\* C1 witness: the clock tick returned a conditional breakpoint, with VF set.
C1_AssertFired ==
    last.op = "Process" /\ last.kind = "break" /\ last.bp.Conditional /\ VM.V[15] # 0

C2Step(vm, r) ==
    /\ vm.W # NoReg => r = [vm |-> vm, kind |-> "ok", msg |-> "", bp |-> NoBreak]
    /\ (Fetches(vm) /\ InstAt(vm) % 256 = 10 /\ InstAt(vm) \div 4096 = 15) =>
          /\ Executed(r)
          /\ r.vm.W = (InstAt(vm) \div 256) % 16
          /\ r.vm.PC = vm.PC + 2

C2Next(p, r) == Executed(r) => r.vm.Cycles = p.Cycles + 1

C2Press(vm, p, k, rnd) ==
    vm.W # NoReg =>
        /\ p.W = NoReg
        /\ p.V = [vm.V EXCEPT ![vm.W] = k]
        /\ p.PC = vm.PC
        /\ InstAt([vm EXCEPT !.PC = vm.PC - 2]) = 61450 + 256 * vm.W
        /\ C2Next(p, Step(p, now, rnd))

\* C2: LD Vx,K leaves the machine waiting for a key into Vx.  While it waits
\* every Step returns nil and changes nothing (PC, V, I, SP, stack, memory,
\* video, cycle count); a key-down of any key 0..15 stores the key in Vx and
\* ends the wait with the PC at the instruction after the LD Vx,K, which the
\* next Step then executes; a key release leaves the wait as it is.
C2_KeyWait ==
    \A rnd \in Rnds :
        /\ C2Step(VM, Step(VM, now, rnd))
        /\ \A k \in 0..(NumKeys - 1) :
              /\ C2Press(VM, PressKey(VM, k), k, rnd)
              /\ ReleaseKey(VM, k).W = VM.W

\* C2 witness: the key 15 went down while the program waited in LD V1,K at
\* 0x202, and V1 holds it.
C2_KeyStored ==
    file = Nest /\ last.op = "PressKey" /\ VM.V[1] = 15 /\ VM.W = NoReg /\ VM.PC = 516

C3After(vm, r) ==
    /\ (Fetches(vm) /\ InstAt(vm) \div 4096 = 2 /\ vm.SP = StackSize) =>
          r.kind = "panic" /\ r.msg = "Stack overflow!"
    /\ (Fetches(vm) /\ InstAt(vm) = 238 /\ vm.SP = 0) =>
          r.kind = "panic" /\ r.msg = "Stack underflow!"
    /\ (r.kind = "panic" /\ r.msg \in {"Stack overflow!", "Stack underflow!"}) =>
          r.vm.SP = vm.SP /\ r.vm.Stack = vm.Stack

\* C3: SP stays within 0..16; a CALL at SP = 16 and a RET at SP = 0 panic with
\* the stack error and leave SP and the stack entries as they were.
C3_StackBounds ==
    /\ VM.SP \in 0..StackSize
    /\ DOMAIN VM.Stack = 0..(StackSize - 1)
    /\ \A rnd \in Rnds : C3After(VM, Step(VM, now, rnd))

\* C3 witness: the seventeenth nested CALL panicked with a full stack.
C3_Overflowed ==
    host = "crashed" /\ last.kind = "panic" /\ VM.SP = StackSize /\ file = Recurse

\* C4: the PC stays below 0x1000 in every reachable state.
C4_PCInRange == VM.PC >= 0 /\ VM.PC < MemSize

\* C4 witness: JP V0,FFF with V0 = FF has left the PC at 0x10FE, and the
\* program is still running.
C4_PCBeyondMemory == host = "running" /\ VM.PC = 4350 /\ last.kind = "ok"

\* C5: when a Step of the clock tick ends in a stack overflow, a stack
\* underflow, a SYS instruction or an invalid opcode, the host has the fault,
\* is paused, and is still running with the machine to look at.
C5_FaultsHalt ==
    (last.op = "Process" /\ last.kind \in {"panic", "error"}) =>
        (Paused /\ host = "running")

\* C5 witness: the tick ran into the invalid opcode E000; the host goes on
\* unpaused.
C5_InvalidIgnored ==
    file = Invalid /\ last.op = "Process" /\ last.kind = "error" /\ ~Paused /\ host = "running"

C6Resume(v, q, t1, t2) ==
    /\ q.steps <= Target(v, t2) - Target(v, t1)
    /\ q.steps <= ((t2 - t1) * v.Speed) \div MsPerSec + 1

C6After(vm, p, t1, t2, rnd) ==
    /\ p.kind = "ok"
    /\ p.steps = 0
    /\ p.vm = [vm EXCEPT !.Cycles = Target(vm, t1)]
    /\ C6Resume(p.vm, Process(p.vm, FALSE, t2, rnd), t1, t2)

\* C6: Process(paused = true) at any later time executes nothing and changes
\* the cycle count alone, to the target of that time; an unpaused Process
\* that follows it calls Step at most as often as the time since the paused
\* call pays for, however long the pause was.
C6_PausedProcess ==
    \A rnd \in Rnds : \A d1 \in Delays : \A d2 \in {0, ShortDelay} :
        C6After(VM, Process(VM, TRUE, now + d1, rnd), now + d1, now + d1 + d2, rnd)

\* C6 witness: a tick found the host paused right after a reset; the cycle
\* count has moved and the PC has not.
C6_PausedTick ==
    last.op = "Process" /\ last.paused /\ last.steps = 0 /\ VM.Cycles > 0 /\ VM.PC = VM.Base

C7After(vm, r, t) ==
    /\ r.Memory = vm.ROM
    /\ r.ROM = vm.ROM
    /\ r.V = ZeroV
    /\ r.R = ZeroR
    /\ r.Video = Zero
    /\ r.Keys = NoKeys
    /\ \A d \in 0..LongDelay : GetDelayTimer(r, t + d) = 0 /\ GetSoundTimer(r, t + d) = 0
    /\ r.PC = vm.Base
    /\ r.SP = 0
    /\ r.I = 0
    /\ r.Pitch = LowPitch
    /\ r.W = NoReg
    /\ r.Breakpoints = vm.Breakpoints

\* C7: Reset leaves memory equal to the ROM image, V, R and the video zero,
\* the keys released, both timers reading 0, PC at the base, SP = 0, I = 0,
\* pitch 8 and no wait for a key, and the breakpoint map as it was.
C7_ResetState == C7After(VM, Reset(VM, now), now)

\* C7 witness: a reset of a program that had run (its stack holds a return
\* address and it was waiting for a key) and that has breakpoints.
C7_ResetDone ==
    /\ last.op = "Reset"
    /\ VM.Stack # ZeroStack
    /\ VM.Breakpoints # NoBreakpoints
    /\ VM.PC = VM.Base
    /\ VM.W = NoReg

\* C8: the ROM image is in every state the image installed at load; Reset
\* yields the memory the load left, and SaveROM without the interpreter
\* writes the program that was loaded.
C8_ROMRetained ==
    /\ VM.ROM = LoadFile(file, ETI, 0).ROM
    /\ Reset(VM, now).Memory = LoadFile(file, ETI, 0).Memory
    /\ SaveROM(VM) = Assemble(file.lines, ETI).ROM

\* C8 witness: the program has stored into its own first instruction.
C8_CodeOverwritten ==
    file = SelfMod /\ Get(VM.Memory, 512) = 18 /\ Get(VM.ROM, 512) = 162

C9After(vm, r) ==
    /\ (Fetches(vm) /\ InstAt(vm) \div 4096 = 2 /\ vm.SP < StackSize) =>
          /\ Executed(r)
          /\ r.vm.Stack = [vm.Stack EXCEPT ![vm.SP] = vm.PC + 2]
          /\ r.vm.SP = vm.SP + 1
          /\ r.vm.PC = InstAt(vm) % 4096
    /\ (Fetches(vm) /\ InstAt(vm) = 238 /\ vm.SP > 0) =>
          /\ Executed(r)
          /\ r.vm.Stack = vm.Stack
          /\ r.vm.SP = vm.SP - 1
          /\ r.vm.PC = vm.Stack[vm.SP - 1]
    /\ ~(Fetches(vm) /\ (InstAt(vm) \div 4096 = 2 \/ InstAt(vm) = 238)) =>
          r.vm.Stack = vm.Stack /\ r.vm.SP = vm.SP

\* C9: CALL NNN at address A with SP = s < 16 leaves stack[s] = A + 2,
\* SP = s + 1, PC = NNN and the other stack entries as they were; RET with
\* SP = s + 1 leaves SP = s, PC = stack[s] and the stack as it was; no other
\* instruction touches SP or the stack.
C9_CallRet == \A rnd \in Rnds : C9After(VM, Step(VM, now, rnd))

\* C9 witness: two nested calls, from 0x200 and from 0x206, are on the stack.
C9_Nested ==
    file = Nest /\ VM.SP = 2 /\ VM.Stack[0] = 514 /\ VM.Stack[1] = 520 /\ VM.PC = 522

\* The addresses the BREAK directives of the loaded file name.
FileBreaks ==
    {a \in DOMAIN VM.Breakpoints :
        ~VM.Breakpoints[a].Conditional /\ ~VM.Breakpoints[a].Once
        /\ VM.Breakpoints[a].Reason # "User break"}

\* C10: a tick that finds the emulation unpaused right after a load or a
\* reset, with the PC at the address of a BREAK directive, breaks before the
\* instruction there is executed.
C10_BreakBeforeFirst ==
    [][(/\ last'.op = "Process"
        /\ ~Paused
        /\ last.op \in {"LoadFile", "Reset"}
        /\ VM.PC \in FileBreaks)
       => (Paused' /\ last'.steps = 0)]_vars

\* C10 witness: the first break of the file "first" is reported with V0 = 1:
\* ADD V0,1 at 0x200 has run before it.
C10_RanBeforeBreak ==
    file = First /\ events = 0 /\ last.kind = "break" /\ last.bp.Address = 512 /\ VM.V[0] = 1

\* ---------------------------------------------------------------------------
\* C11  StepOverBreakpoint
\* ---------------------------------------------------------------------------

\* The breakpoint map of vm1 is that of vm0 but for the entry at address a.
SameBut(vm0, vm1, a) ==
    /\ DOMAIN vm1.Breakpoints \ {a} = DOMAIN vm0.Breakpoints \ {a}
    /\ \A k \in DOMAIN vm0.Breakpoints \ {a} : vm1.Breakpoints[k] = vm0.Breakpoints[k]

C11After(vm, so) ==
    /\ so.ok = (Get(vm.Memory, vm.PC) \div 16 = 2)
    /\ ~so.ok => so.vm.Breakpoints = vm.Breakpoints
    /\ so.ok =>
          /\ (vm.PC + 2) \in DOMAIN so.vm.Breakpoints
          /\ so.vm.Breakpoints[vm.PC + 2] =
                IF (vm.PC + 2) \in DOMAIN vm.Breakpoints
                THEN vm.Breakpoints[vm.PC + 2]
                ELSE Breakpoint(vm.PC + 2, "", FALSE, TRUE)
          /\ SameBut(vm, so.vm, vm.PC + 2)

\* C11: whenever StepOverBreakpoint returns, it returns true exactly when the
\* high nibble of the byte at PC is 2; when it returns false the breakpoint map
\* is unchanged; when it returns true there is a breakpoint at PC+2 afterwards
\* (a new once breakpoint, or the one that was there, unmodified) and no other
\* entry of the map changed.
C11_StepOver ==
    (host = "running" /\ StepOverBreakpoint(VM).fault = "")
        => C11After(VM, StepOverBreakpoint(VM))

\* F6 on a CALL installed the once breakpoint behind it.
C11_SteppedOverCall ==
    /\ last.op = "StepOver"
    /\ last.kind = "ok"
    /\ ~Paused
    /\ \E a \in DOMAIN VM.Breakpoints : VM.Breakpoints[a].Once /\ a = VM.PC + 2

\* ---------------------------------------------------------------------------
\* C12  ADD Vx,Vy
\* ---------------------------------------------------------------------------

C12After(vm, x, y, r) ==
    /\ r.kind = "ok"
    /\ r.vm.V[15] = (IF vm.V[x] + vm.V[y] > 255 THEN 1 ELSE 0)
    /\ x # 15 => r.vm.V[x] = (vm.V[x] + vm.V[y]) % 256

\* C12: for all registers x and y (x = y included) and all register values,
\* ADD Vx,Vy leaves VF = 1 if the 8-bit addition wrapped and VF = 0 if it did
\* not, and for x other than F leaves Vx = (Vx + Vy) mod 256.
C12_AddCarry ==
    host = "running" =>
        \A x \in Regs, y \in Regs : C12After(VM, x, y, Decode(VM, Word(32772, x, y), now, 0))

\* The same for two different registers.
C12_AddCarryDistinct ==
    host = "running" =>
        \A x \in Regs : \A y \in Regs \ {x} :
            C12After(VM, x, y, Decode(VM, Word(32772, x, y), now, 0))

\* ---------------------------------------------------------------------------
\* C13  SUB Vx,Vy
\* ---------------------------------------------------------------------------

C13After(vm, x, y, r) ==
    /\ r.kind = "ok"
    /\ r.vm.V[15] = (IF vm.V[x] >= vm.V[y] THEN 1 ELSE 0)
    /\ x # 15 => r.vm.V[x] = (vm.V[x] - vm.V[y] + 256) % 256

\* C13: for all registers x and y (F included) and all register values,
\* SUB Vx,Vy leaves VF = 1 if Vx >= Vy held before it and VF = 0 if not, and
\* for x other than F leaves Vx = (Vx - Vy) mod 256 of the values both
\* registers held before it.
C13_SubBorrow ==
    host = "running" =>
        \A x \in Regs, y \in Regs : C13After(VM, x, y, Decode(VM, Word(32773, x, y), now, 0))

\* The same when neither operand is VF.
C13_SubBorrowNoFlag ==
    host = "running" =>
        \A x \in Regs \ {15}, y \in Regs \ {15} :
            C13After(VM, x, y, Decode(VM, Word(32773, x, y), now, 0))

\* ---------------------------------------------------------------------------
\* C14  VF after the arithmetic instructions
\* ---------------------------------------------------------------------------

\* r is the result of an instruction; DIV by zero has none (a panic).
C14After(r) == r.kind = "ok" => r.vm.V[15] \in {0, 1}

\* C14: after ADD Vx,Vy, SUB, SUBN, SHR, SHL, MUL, DIV and ADD I,Vx, for all
\* operand registers and values, VF is 0 or 1.
C14_FlagIsBit ==
    host = "running" =>
        /\ \A op \in AluOps, x \in Regs, y \in Regs :
              C14After(Decode(VM, Word(op, x, y), now, 0))
        /\ \A x \in Regs : C14After(Decode(VM, Word(61470, x, 0), now, 0))

\* The same for ADD Vx,Vy, SHR and ADD I,Vx alone.
C14_CarryIsBit ==
    host = "running" =>
        /\ \A op \in {32772, 32774}, x \in Regs, y \in Regs :
              C14After(Decode(VM, Word(op, x, y), now, 0))
        /\ \A x \in Regs : C14After(Decode(VM, Word(61470, x, 0), now, 0))

\* ---------------------------------------------------------------------------
\* C15  I is a 12-bit register
\* ---------------------------------------------------------------------------

C15_FontIndexIs12Bit ==
    last.op \in {Word(61481, x, 0) : x \in Regs} \cup {Word(61488, x, 0) : x \in Regs}
        => VM.I < MemSize

\* ---------------------------------------------------------------------------
\* C16  DRW Vx,Vy,N: XOR and collision flag
\* ---------------------------------------------------------------------------

\* Bit j of the byte v, counted from the left, and the pixel (px, py) of a
\* screen whose scan lines are pitch bytes long.
Bit(v, j) == (v \div Pow2(7 - j)) % 2
Pixel(video, pitch, px, py) == Bit(Get(video, py * pitch + (px \div 8)), px % 8)
\* The number of scan lines of the screen.
Lines(pitch) == IF pitch = LowPitch THEN 32 ELSE 64

\* Some bit of video v0 that is set is clear in v1.
Cleared(v0, v1) == \E a \in DOMAIN v0 : BitAnd(v0[a], 255 - Get(v1, a)) # 0

\* r is the result of DRW Vx,Vy,n on vm.
C16After(vm, x, y, n, r) ==
    r.kind = "ok" =>
        /\ r.vm.V[15] = (IF Cleared(vm.Video, r.vm.Video) THEN 1 ELSE 0)
        /\ \A k \in 0..(n - 1), j \in 0..7 :
              (/\ Int8(vm.V[y]) + k \in 0..(Lines(vm.Pitch) - 1)
               /\ Int8(vm.V[x]) >= 0
               /\ Int8(vm.V[x]) + j < 8 * vm.Pitch)
              => Pixel(r.vm.Video, vm.Pitch, Int8(vm.V[x]) + j, Int8(vm.V[y]) + k)
                   = (Pixel(vm.Video, vm.Pitch, Int8(vm.V[x]) + j, Int8(vm.V[y]) + k)
                      + Bit(Get(vm.Memory, vm.I + k), j)) % 2

\* r1 and r2 are the results of the first and the second DRW V0,V0,1.
C16Twice(r1, r2) ==
    /\ r1.kind = "ok" /\ r1.vm.Video = [a \in {0} |-> 255] /\ r1.vm.V[15] = 0
    /\ r2.kind = "ok" /\ r2.vm.Video = Zero /\ r2.vm.V[15] = 1

C16Example(vm, r1) == C16Twice(r1, Decode(r1.vm, Word(DrawOp + 1, 0, 0), now, 0))

\* C16: DRW Vx,Vy,N with N > 0 XORs each drawn sprite row into the video and
\* leaves VF = 1 if some video bit that was set before is clear after it and
\* VF = 0 if none is; with memory[I] = 0xFF, V0 = 0 and a clear screen the
\* first DRW V0,V0,1 sets pixels 0..7 of row 0 with VF = 0 and the second one
\* clears them with VF = 1.
C16_DrawCollision ==
    host = "running" =>
        /\ \A x \in DrawRegs, y \in DrawRegs, n \in 1..MaxRows :
              C16After(VM, x, y, n, Decode(VM, Word(DrawOp + n, x, y), now, 0))
        /\ (VM.Video = Zero /\ VM.V[0] = 0 /\ Get(VM.Memory, VM.I) = 255)
              => C16Example(VM, Decode(VM, Word(DrawOp + 1, 0, 0), now, 0))

\* A second DRW has turned pixels off and set VF.
C16_Collided ==
    /\ last.op \in {Word(DrawOp + n, x, y) : n \in 1..MaxRows, x \in DrawRegs, y \in DrawRegs}
    /\ last.kind = "ok"
    /\ events = 2
    /\ VM.V[15] = 1
    /\ VM.Video = Zero

\* ---------------------------------------------------------------------------
\* C17  DRW Vx,Vy,0 twice
\* ---------------------------------------------------------------------------

\* r1 and r2 are the results of the first and the second DRW Vx,Vy,0.
C17Always(r1, r2) ==
    r2.kind = "ok" => (r2.vm.Video = Zero /\ r2.vm.V[15] = 1)

C17IfDrawn(r1, r2) ==
    r2.kind = "ok" =>
        /\ r2.vm.Video = Zero
        /\ r2.vm.V[15] = (IF r1.vm.Video # Zero THEN 1 ELSE 0)

C17Stated(r1, x, y) ==
    r1.kind = "ok" => C17Always(r1, Decode(r1.vm, Word(DrawOp, x, y), now, 0))

C17Amended(r1, x, y) ==
    r1.kind = "ok" => C17IfDrawn(r1, Decode(r1.vm, Word(DrawOp, x, y), now, 0))

\* C17 as stated: from a cleared screen, DRW Vx,Vy,0 executed twice with the
\* same Vx, Vy, I and sprite, for any sprite and any coordinates, leaves the
\* video all zero and VF = 1.
C17_DrawTwiceSetsFlag ==
    (host = "running" /\ VM.Video = Zero) =>
        \A x \in DrawRegs, y \in DrawRegs :
            C17Stated(Decode(VM, Word(DrawOp, x, y), now, 0), x, y)

\* C17 as amended: from a cleared screen, DRW Vx,Vy,0 executed twice with the
\* same Vx, Vy, I and sprite leaves the video all zero, and VF = 1 after the
\* second draw if the first draw set some video bit, VF = 0 if it set none.
C17_DrawTwiceUndoes ==
    (host = "running" /\ VM.Video = Zero) =>
        \A x \in DrawRegs, y \in DrawRegs :
            C17Amended(Decode(VM, Word(DrawOp, x, y), now, 0), x, y)

\* The second DRW Vx,Vy,0 has erased the sprite.
C17_Undone ==
    /\ last.op \in {Word(DrawOp, x, y) : x \in DrawRegs, y \in DrawRegs}
    /\ last.kind = "ok"
    /\ events = 2
    /\ VM.I = DefaultBase
    /\ VM.Video = Zero
    /\ VM.V[15] = 1

\* ---------------------------------------------------------------------------
\* C18  DRW clips at the bottom of the screen
\* ---------------------------------------------------------------------------

\* The indices at which two videos differ.
Changed(v0, v1) == {a \in DOMAIN v0 \cup DOMAIN v1 : Get(v0, a) # Get(v1, a)}

\* r is the result of DRW Vx,Vy,n on vm: every byte it changed lies on one of
\* the scan lines Vy .. Vy+n-1 of the screen.
C18After(vm, x, y, n, r) ==
    r.kind = "ok" =>
        \A a \in Changed(vm.Video, r.vm.Video) :
            /\ a < Lines(vm.Pitch) * vm.Pitch
            /\ (a \div vm.Pitch) \in vm.V[y]..(vm.V[y] + n - 1)

\* C18: for all values 0..255 of Vx and Vy, DRW Vx,Vy,N changes only video
\* bytes of the scan lines Vy .. Vy+N-1 (Vy unsigned) that exist on the screen
\* of the current pitch; no sprite row appears at the top of the screen or on
\* any other scan line.
C18_DrawClips ==
    host = "running" =>
        \A x \in DrawRegs, y \in DrawRegs, n \in 1..MaxRows :
            C18After(VM, x, y, n, Decode(VM, Word(DrawOp + n, x, y), now, 0))

\* The same for sprites whose eight columns are on the screen and Vy < 128.
C18_DrawClipsInside ==
    host = "running" =>
        \A x \in DrawRegs, y \in DrawRegs, n \in 1..MaxRows :
            (VM.V[y] < 128 /\ VM.V[x] + 7 < 8 * VM.Pitch)
                => C18After(VM, x, y, n, Decode(VM, Word(DrawOp + n, x, y), now, 0))

\* ---------------------------------------------------------------------------
\* C19  SCU N / SCD N
\* ---------------------------------------------------------------------------

\* The bytes of scan line l of a screen whose scan lines are pitch bytes long.
Line(video, pitch, l) == [b \in 0..(pitch - 1) |-> Get(video, l * pitch + b)]
\* The rows SCU N / SCD N scroll by.
Rows(pitch, n) == IF pitch = LowPitch THEN n \div 2 ELSE n

\* r is the result of SCU N on vm, which scrolls n rows.
C19Up(vm, n, r) ==
    /\ r.kind = "ok"
    /\ \A l \in 0..(Lines(vm.Pitch) - 1) :
          Line(r.vm.Video, vm.Pitch, l) =
              IF l + n < Lines(vm.Pitch) THEN Line(vm.Video, vm.Pitch, l + n)
              ELSE Line(Zero, vm.Pitch, l)

\* r is the result of SCD N on vm, which scrolls n rows.
C19Down(vm, n, r) ==
    /\ r.kind = "ok"
    /\ \A l \in 0..(Lines(vm.Pitch) - 1) :
          Line(r.vm.Video, vm.Pitch, l) =
              IF l - n >= 0 THEN Line(vm.Video, vm.Pitch, l - n)
              ELSE Line(Zero, vm.Pitch, l)

\* C19: after SCU N (SCD N), which scrolls n = N rows in high and n = N / 2
\* rows in low resolution, every scan line of the screen that has a source
\* line n rows below (above) it holds that line's previous contents and the n
\* vacated scan lines at the bottom (top) of the screen are zero, whatever was
\* drawn or scrolled and whichever resolution was active before.
C19_Scrolls ==
    host = "running" =>
        \A n \in 0..(NumKeys - 1) :
            /\ C19Up(VM, Rows(VM.Pitch, n), Decode(VM, 176 + n, now, 0))
            /\ C19Down(VM, Rows(VM.Pitch, n), Decode(VM, 192 + n, now, 0))

\* The same for SCD in both resolutions and SCU in high resolution.
C19_ScrollsButLowUp ==
    host = "running" =>
        \A n \in 0..(NumKeys - 1) :
            /\ VM.Pitch = HighPitch
                  => C19Up(VM, Rows(VM.Pitch, n), Decode(VM, 176 + n, now, 0))
            /\ C19Down(VM, Rows(VM.Pitch, n), Decode(VM, 192 + n, now, 0))

\* ---------------------------------------------------------------------------
\* C20  EXIT loops on itself
\* ---------------------------------------------------------------------------

\* The PC of vm is at an EXIT that Step will execute.
AtExit(vm) == Fetches(vm) /\ InstAt(vm) = 253

\* vm1 has the PC, registers, stack, memory, video and pitch of vm0.
C20Kept(vm0, vm1) ==
    /\ vm1.PC = vm0.PC
    /\ vm1.V = vm0.V
    /\ vm1.I = vm0.I
    /\ vm1.SP = vm0.SP
    /\ vm1.Stack = vm0.Stack
    /\ vm1.Memory = vm0.Memory
    /\ vm1.Video = vm0.Video
    /\ vm1.Pitch = vm0.Pitch

\* r is the result of a Step, or of a Process, of vm at an EXIT.
C20After(vm, r) == Executed(r) /\ C20Kept(vm, r.vm) /\ AtExit(r.vm)

\* C20: with the PC at an EXIT (as it is once the EXIT has been executed),
\* every Step leaves the PC at that EXIT, ready to execute it again, and V, I,
\* SP, the stack, the memory, the video and the pitch unchanged; so do all
\* the Steps of a Process.
C20_ExitLoops ==
    (host = "running" /\ AtExit(VM)) =>
        \A rnd \in Rnds :
            /\ C20After(VM, Step(VM, now, rnd))
            /\ C20After(VM, Process(VM, FALSE, now + ShortDelay, rnd))

\* The program has run into its EXIT and executed it more than once.
C20_Exited ==
    /\ file = Exit
    /\ last.op = "Process"
    /\ last.steps > 3
    /\ VM.Cycles > 3
    /\ VM.PC = DefaultBase + 2
    /\ VM.V[0] = 1

-----------------------------------------------------------------------------
(* C21: the timers                                                         *)

\* floor(v * 10^9 / 60) ns, the time a timer written with v runs: v * 50 / 3
\* ms, whose thirds of a millisecond are 333333 ns and 666666 ns.
Period(v) == [ms |-> (v * 50) \div 3, ns |-> (((v * 50) % 3) * NsPerMs) \div 3]

\* r = max(0, floor((d - t) * 60 / 10^9)).  d - t is m ms + n ns, and
\* r <= (m * 10^6 + n) * 60 / 10^9 < r + 1 is r * 50 <= 3 * m + 3 * n / 10^6
\* < (r + 1) * 50, where the integer bounds allow the floor of 3 * n / 10^6.
Reads(d, t, r) ==
    IF ~Before(t, d) THEN r = 0
    ELSE /\ r \in 0..255
         /\ r * 50 <= 3 * (d.ms - t) + (3 * d.ns) \div NsPerMs
         /\ 3 * (d.ms - t) + (3 * d.ns) \div NsPerMs < (r + 1) * 50

\* The word at the PC of a machine that executes LD DT,Vx (kind 21) or
\* LD ST,Vx (kind 24), and its x.
WordAtPC(vm) == Get(vm.Memory, vm.PC) * 256 + Get(vm.Memory, vm.PC + 1)
Writes(vm, kind) == vm.PC < MemSize - 1 /\ WordAtPC(vm) \div 4096 = 15 /\ WordAtPC(vm) % 256 = kind
WrittenX(vm) == (WordAtPC(vm) \div 256) % 16

\* The deadline d is that of a timer written with v at time t, which then
\* never reads more than v.
WrittenAt(d, t, v) ==
    /\ d = [ms |-> t + Period(v).ms, ns |-> Period(v).ns]
    /\ \A u \in t..MaxNow + 1 : TimerValue(d, u) <= v

\* One step of the program under the debugger, as far as the timers go.
C21_TimerStep ==
    /\ last'.op = "Step" /\ last'.kind = "ok" /\ VM.W = NoReg /\ Writes(VM, 21)
          => WrittenAt(VM'.DT, now, VM.V[WrittenX(VM)]) /\ VM'.ST = VM.ST
    /\ last'.op = "Step" /\ last'.kind = "ok" /\ VM.W = NoReg /\ Writes(VM, 24)
          => WrittenAt(VM'.ST, now, VM.V[WrittenX(VM)]) /\ VM'.DT = VM.DT
    /\ VM'.DT # VM.DT \/ VM'.ST # VM.ST
          => \/ last'.op \in {"Reset", "LoadFile"}
             \/ last'.op \in {"Step", "Process"} /\ ~(last'.op = "Process" /\ Paused)
                /\ last'.steps > 0
    /\ VM'.DT = VM.DT => GetDelayTimer(VM', now') <= GetDelayTimer(VM, now)
    /\ VM'.ST = VM.ST => GetSoundTimer(VM', now') <= GetSoundTimer(VM, now)

\* C21: a timer written with v at time t0 has the deadline t0 + v * 10^9 / 60
\* ns; reading a timer at time t gives max(0, floor((deadline - t) * 60 / 10^9)),
\* which is 0 from the deadline on, at most v and never grows with t; and the
\* deadlines change only when the program is loaded or reset or executes an
\* instruction: not in Process(paused), not in any other debugger operation.
C21_Timers ==
    /\ [](Reads(VM.DT, now, GetDelayTimer(VM, now)) /\ Reads(VM.ST, now, GetSoundTimer(VM, now)))
    /\ [][C21_TimerStep]_vars

\* The emulation is paused with the delay timer still running and the sound
\* timer, which the program has written, past its deadline.
C21_Witness ==
    /\ file = Timers /\ Paused
    /\ GetDelayTimer(VM, now) \in 1..2
    /\ VM.ST # TimeZero /\ ~Before(now, VM.ST) /\ GetSoundTimer(VM, now) = 0

\* The debugger has stepped through a write of a timer.
C21_WitnessStep ==
    /\ file = Timers /\ Paused /\ last.op = "Step" /\ VM.PC = DefaultBase + 4
    /\ VM.DT # TimeZero

-----------------------------------------------------------------------------
(* C22: the speed.  The emulation is paused on an empty program; the user  *)
(* presses ] and [ as often as they like while the clock ticks.            *)

SpeedInit ==
    /\ file = Blank
    /\ VM = LoadFile(Blank, ETI, 0)
    /\ Paused = TRUE
    /\ Log = {}
    /\ now = 0
    /\ host = "running"
    /\ last = Call("LoadFile", "ok", NoBreak, 0, TRUE)
    /\ events = 0

\* VM.IncSpeed() / VM.DecSpeed() returned the machine vm.
SpeedSet(op, vm) ==
    /\ host = "running"
    /\ VM' = vm
    /\ last' = Call(op, "ok", NoBreak, 0, Paused)
    /\ UNCHANGED <<Paused, Log, now, file, host, events>>

IncSpeedCall == SpeedSet("IncSpeed", IncSpeed(VM, now))
DecSpeedCall == SpeedSet("DecSpeed", DecSpeed(VM, now))

SpeedNext ==
    \/ \E d \in Delays : ClockTick(d)
    \/ IncSpeedCall
    \/ DecSpeedCall

SpeedSpec == SpeedInit /\ [][SpeedNext]_vars

\* A call that changes the speed changes it by one step, sets the clock
\* anchor to the time of the call and zeroes the cycle count.
C22_SpeedStep ==
    VM'.Speed # VM.Speed
       => /\ VM'.Speed \in {VM.Speed - SpeedStep, VM.Speed + SpeedStep}
          /\ VM'.Clock = now /\ VM'.Cycles = 0

\* C22: after any sequence of IncSpeed and DecSpeed calls from the baseline
\* 700 the speed is within 100..15000, and every call that changes the speed
\* changes it by exactly 200, resets the clock anchor and zeroes the cycle
\* count.
C22_SpeedRange ==
    /\ [](VM.Speed \in MinSpeed..MaxSpeed)
    /\ [][C22_SpeedStep]_vars

\* What the code keeps: the speed is one of 100, 300, ..., 15100, and the
\* calls that change it do as C22 says.
C22_SpeedReached ==
    /\ [](\E k \in 0..(MaxSpeed \div SpeedStep) : VM.Speed = MinSpeed + k * SpeedStep)
    /\ [][C22_SpeedStep]_vars

\* IncSpeed has taken the speed from 14900 to 15100 at a time when the cycle
\* count was not zero.
C22_Fastest ==
    /\ VM.Speed = MaxSpeed + MinSpeed /\ last.op = "IncSpeed"
    /\ VM.Clock > 0 /\ VM.Cycles = 0

-----------------------------------------------------------------------------
(* C23, C24: labels that are referenced before they are defined            *)

\* The source file was loaded, and it assembled.
Assembles == last.op = "load" /\ last.kind = "ok"

\* The token t as it is when its label is defined before it: the value of
\* the label in labels.
Known(t, labels) == IF t.typ = "ID" /\ t.id \in DOMAIN labels THEN labels[t.id] ELSE t

\* The source with every operand that references a label of labels replaced
\* by the value of the label.
Substituted(lines, labels) ==
    [k \in DOMAIN lines |->
        [lines[k] EXCEPT !.ops = [j \in DOMAIN lines[k].ops |-> Known(lines[k].ops[j], labels)]]]

\* The lines are lines of the set.
From(lines, set) == \A k \in DOMAIN lines : lines[k] \in set

\* Line k references, in an operand from the first-th on, a label that a
\* later line defines.
Forward(lines, k, first) ==
    \E j \in first..Len(lines[k].ops), n \in k + 1..Len(lines) :
        lines[k].ops[j].typ = "ID" /\ lines[n].label = lines[k].ops[j].id

\* C23: after a successful assembly every operand of SYS, JP, CALL, JP V0,
\* LD I and WORD that references a label defined later in the source is
\* encoded as if the label had been defined before it: the ROM is the ROM of
\* the source with the addresses of the labels written in place of the
\* references.
C23_ForwardLabels ==
    Assembles /\ From(file.lines, LabelLines)
       => SaveROM(VM) = Assemble(Substituted(file.lines, Assemble(file.lines, ETI).Labels), ETI).ROM

\* The same for the sources in which no operand of WORD after the first
\* references a label defined later.
C23_ForwardFirst ==
    (Assembles /\ From(file.lines, LabelLines))
    /\ ~(\E k \in DOMAIN file.lines : file.lines[k].i = "WORD" /\ Forward(file.lines, k, 2))
       => SaveROM(VM) = Assemble(Substituted(file.lines, Assemble(file.lines, ETI).Labels), ETI).ROM

\* A source with a forward reference in an instruction has assembled.
C23_Patched ==
    /\ Assembles /\ From(file.lines, LabelLines)
    /\ \E k \in DOMAIN file.lines : file.lines[k].i # "WORD" /\ Forward(file.lines, k, 1)

\* WORD 7,L with L defined on the next line has assembled.
C23_SecondOperand ==
    /\ Assembles
    /\ file.lines = <<Op("WORD", <<TOKEN_LIT(7), TOKEN_ID("L")>>),
                      SourceLine("L", "INSTRUCTION", "CLS", <<>>, "")>>

\* The labels the operands of the source reference, and those it defines.
Referenced(lines) ==
    UNION {{lines[k].ops[j].id : j \in {i \in DOMAIN lines[k].ops : lines[k].ops[i].typ = "ID"}} :
           k \in DOMAIN lines}
Labelled(lines) == {lines[k].label : k \in DOMAIN lines} \ {""}

\* C24: the assembly succeeds only if every label that the source references
\* anywhere is defined somewhere in it; with a referenced label that is never
\* defined, Assemble returns an error and no program of the source.
C24_Unresolved ==
    Assembles => Referenced(file.lines) \subseteq Labelled(file.lines)

\* The same for the sources in which every line references at most one
\* label.
C24_UnresolvedAlone ==
    Assembles /\ (\A k \in DOMAIN file.lines :
                     Cardinality({j \in DOMAIN file.lines[k].ops : file.lines[k].ops[j].typ = "ID"}) <= 1)
       => Referenced(file.lines) \subseteq Labelled(file.lines)

\* The load of a source that references an undefined label has failed with
\* the error of the unresolved label, which names no line.
C24_Failed ==
    /\ last.op = "load" /\ last.kind = "error"
    /\ ~(Referenced(file.lines) \subseteq Labelled(file.lines))
    /\ [line |-> 0, err |-> "unresolved label"] \in Log

\* WORD L,M with M defined on the next line and L nowhere has assembled.
C24_Shadowed ==
    /\ Assembles
    /\ file.lines = <<Op("WORD", <<TOKEN_ID("L"), TOKEN_ID("M")>>),
                      SourceLine("M", "END", "", <<>>, "")>>

-----------------------------------------------------------------------------
(* C25, C27: the SUPER and EXTENDED directives                             *)

\* A directive t (SUPER or EXTENDED) stands on a line before line k.
InEffect(lines, t, k) == \E j \in 1..k - 1 : lines[j].t = t

\* Line k is one of the instructions of the set without the directive t
\* before it.
Unguarded(lines, k, set, t) == lines[k] \in set /\ ~InEffect(lines, t, k)

\* The load has failed with an error that names line k or a line before it.
FailedBy(k) == last.kind = "error" /\ \E e \in Log : e.line \in 1..k

\* C25: every Super-CHIP opcode (SCU, SCD, SCR, SCL, EXIT, LOW, HIGH,
\* DRW Vx,Vy,0, LD HF,Vx, LD R,Vx, LD Vx,R) assembles only while SUPER is in
\* effect and every CHIP-8E opcode (SGT, SLT, MUL, DIV, BCD Vx,Vy, LD A,Vx)
\* only while EXTENDED is in effect: without the flag the line is a fatal
\* error of the assembly.
C25_Guarded ==
    last.op = "load"
       => \A k \in DOMAIN file.lines :
             \/ Unguarded(file.lines, k, SuperLines, "SUPER")
             \/ Unguarded(file.lines, k, ExtendedLines, "EXTENDED")
             => FailedBy(k)

\* The same without DRW Vx,Vy,0.
C25_GuardedButDRW ==
    last.op = "load"
       => \A k \in DOMAIN file.lines :
             \/ Unguarded(file.lines, k, SuperLines, "SUPER") /\ file.lines[k].i # "DRW"
             \/ Unguarded(file.lines, k, ExtendedLines, "EXTENDED")
             => FailedBy(k)

\* An instruction of the Super-CHIP set other than DRW was refused on line 2,
\* after an instruction of the base set.
C25_Refused ==
    /\ last.op = "load" /\ last.kind = "error" /\ Len(file.lines) = 2
    /\ file.lines[1].i = "CLS"
    /\ Unguarded(file.lines, 2, SuperLines, "SUPER") /\ file.lines[2].i # "DRW"
    /\ [line |-> 2, err |-> "illegal instruction"] \in Log

\* DRW V0,V1,0 has assembled without SUPER.
C25_Draw ==
    /\ Assembles
    /\ file.lines = <<Op("DRW", <<TOKEN_V(0), TOKEN_V(1), TOKEN_LIT(0)>>)>>
    /\ SaveROM(VM) = [len |-> 2, bytes |-> (0 :> 208 @@ 1 :> 16)]

-----------------------------------------------------------------------------
(* C26: errors of the assembly                                             *)

\* Line k is the first line of the source that the assembler rejects: the
\* lines before it assemble, and with line k they do not.
Rejects(lines, k) ==
    /\ Assembled(SubSeq(lines, 1, k - 1), ETI).err = ""
    /\ Assembled(SubSeq(lines, 1, k), ETI).err # ""

\* What Assemble returns with the error err of line k.
Rejected(k, err) ==
    [ROM |-> Dummy, Breakpoints |-> <<>>, Labels |-> Zero, err |-> err, line |-> k]

\* C26: the assembly stops at the first line that the assembler rejects:
\* Assemble returns an error that names the number of that line, counted from
\* 1, and nothing of the program assembled so far, neither bytes nor labels
\* nor breakpoints; the loader installs the dummy ROM, and after every load
\* there is a machine that has been reset on its ROM.
C26_FirstError ==
    last.op = "load"
       => /\ \A k \in DOMAIN file.lines :
                Rejects(file.lines, k)
                   => /\ last.kind = "error"
                      /\ Assemble(file.lines, ETI)
                            = Rejected(k, Assembled(SubSeq(file.lines, 1, k), ETI).err)
                      /\ Log = {[line |-> k, err |-> Assemble(file.lines, ETI).err]}
                      /\ VM = LoadROM(Dummy, FALSE, now)
          /\ VM = Reset(VM, now) /\ VM.PC = VM.Base

\* The second line, LD V0,300, was rejected after a line that had defined a
\* label and emitted two bytes.
C26_SecondLine ==
    /\ last.op = "load" /\ last.kind = "error"
    /\ file.lines = <<SourceLine("L", "INSTRUCTION", "CLS", <<>>, ""),
                      Op("LD", <<TOKEN_V(0), TOKEN_LIT(300)>>)>>
    /\ Log = {[line |-> 2, err |-> "illegal instruction"]}
    /\ SaveROM(VM) = Dummy

\* The bytes the ROM has after the first k lines of the source, and the mode
\* flags then.
EmittedBy(lines, k) == Len(Assembled(SubSeq(lines, 1, k), ETI).ROM)
Mode(lines, k, t) ==
    IF t = "SUPER" THEN Assembled(SubSeq(lines, 1, k), ETI).Super
    ELSE Assembled(SubSeq(lines, 1, k), ETI).Extended

\* C27: in every successful assembly each SUPER or EXTENDED directive stands
\* before every line that emits a byte, and its flag is set after every
\* later line; a SUPER or EXTENDED line after an emitted byte makes the
\* assembly fail.
C27_ModeFirst ==
    last.op = "load"
       => \A k \in DOMAIN file.lines :
             file.lines[k].t \in {"SUPER", "EXTENDED"}
                => /\ EmittedBy(file.lines, k - 1) > 0 => FailedBy(k)
                   /\ Assembles
                         => /\ EmittedBy(file.lines, k) = 0
                            /\ \A n \in k..Len(file.lines) : Mode(file.lines, n, file.lines[k].t)

\* SUPER on the first line and an instruction of the Super-CHIP set on the
\* second have assembled.
C27_SuperThenScroll ==
    /\ Assembles
    /\ file.lines = <<SourceLine("", "SUPER", "", <<>>, ""), Op("SCR", <<>>)>>
    /\ SaveROM(VM) = [len |-> 2, bytes |-> (1 :> 251)]

\* SUPER on the second line, after CLS, has failed.
C27_Late ==
    /\ last.op = "load" /\ last.kind = "error"
    /\ file.lines = <<Op("CLS", <<>>), SourceLine("", "SUPER", "", <<>>, "")>>
    /\ Log = {[line |-> 2, err |-> "super must come before instructions"]}

-----------------------------------------------------------------------------
(* C28: ALIGN                                                              *)

PowerOfTwo(n) == \E e \in 0..12 : n = 2 ^ e

\* The assembly after the first k lines of the source.
After(lines, k) == Assembled(SubSeq(lines, 1, k), ETI)

\* Line k is ALIGN n with a literal n, reached without an error.
Aligns(lines, k) ==
    /\ lines[k].i = "ALIGN" /\ Len(lines[k].ops) = 1 /\ lines[k].ops[1].typ = "LIT"
    /\ After(lines, k - 1).err = ""

\* Line k has appended count zero bytes to the ROM and nothing else.
Padded(lines, k, count) ==
    /\ After(lines, k).err = ""
    /\ After(lines, k).ROM = After(lines, k - 1).ROM \o [j \in 1..count |-> 0]

\* C28: ALIGN n with n a power of two emits only zero bytes, as many as make
\* len(rom) the smallest multiple of n that is not below its value before:
\* none when len(rom) is a multiple of n already.  An n that is not a power
\* of two is a fatal error.
C28_Align ==
    last.op = "load"
       => \A k \in DOMAIN file.lines :
             Aligns(file.lines, k)
                => IF PowerOfTwo(file.lines[k].ops[1].val)
                   THEN Padded(file.lines, k,
                               (file.lines[k].ops[1].val
                                - (Here(After(file.lines, k - 1)) % file.lines[k].ops[1].val))
                               % file.lines[k].ops[1].val)
                   ELSE After(file.lines, k).err # ""

\* What the code does: ALIGN n with n a power of two emits n - len(rom) % n
\* zero bytes, which are n bytes when len(rom) is a multiple of n.
C28_AlignEmits ==
    last.op = "load"
       => \A k \in DOMAIN file.lines :
             Aligns(file.lines, k)
                => IF PowerOfTwo(file.lines[k].ops[1].val)
                   THEN Padded(file.lines, k,
                               file.lines[k].ops[1].val
                               - (Here(After(file.lines, k - 1)) % file.lines[k].ops[1].val))
                   ELSE After(file.lines, k).err # ""

\* ALIGN 4 after three bytes of data has emitted one zero byte.
C28_Unaligned ==
    /\ Assembles
    /\ file.lines = <<Op("BYTE", <<TOKEN_LIT(1), TOKEN_LIT(2), TOKEN_LIT(3)>>),
                      Op("ALIGN", <<TOKEN_LIT(4)>>)>>
    /\ SaveROM(VM) = [len |-> 4, bytes |-> (0 :> 1 @@ 1 :> 2 @@ 2 :> 3)]

\* ALIGN 4 at the start of the program has emitted four zero bytes.
C28_Aligned ==
    /\ Assembles
    /\ file.lines = <<Op("ALIGN", <<TOKEN_LIT(4)>>)>>
    /\ VM.Size = 4

-----------------------------------------------------------------------------
(* C29: references to labels bound by EQU and VAR                          *)

\* The source with every reference to a label that an earlier line has bound
\* replaced by the literal or the register of the label.
Direct(lines) ==
    [k \in DOMAIN lines |->
        [lines[k] EXCEPT !.ops = [j \in DOMAIN lines[k].ops |->
                                     Known(lines[k].ops[j], After(lines, k - 1).Labels)]]]

\* Line k names a label that an earlier line has bound.
Names(lines, k) ==
    \E j \in DOMAIN lines[k].ops :
        lines[k].ops[j].typ = "ID" /\ lines[k].ops[j].id \in DOMAIN After(lines, k - 1).Labels

\* Loading the source has left what loading the source lines leaves.
SameAs(lines) ==
    /\ VM = load([file EXCEPT !.lines = lines], ETI, now).vm
    /\ (last.kind = "ok") = (Assemble(lines, ETI).err = "")

\* C29: a reference to a label bound by EQU or VAR behaves like the literal
\* or the register written in its place: in every instruction and in BYTE,
\* WORD, ALIGN and PAD the bytes emitted with the reference are the bytes
\* emitted with the operand written directly.
C29_Bound ==
    last.op = "load" /\ From(file.lines, BoundLines) => SameAs(Direct(file.lines))

\* The same for the sources in which BYTE names no bound label.
C29_BoundButBYTE ==
    (/\ last.op = "load" /\ From(file.lines, BoundLines)
     /\ ~(\E k \in DOMAIN file.lines : file.lines[k].i = "BYTE" /\ Names(file.lines, k)))
       => SameAs(Direct(file.lines))

\* LD V0,X after X EQU 4 has assembled to 60 04.
C29_Literal ==
    /\ Assembles
    /\ file.lines = <<SourceLine("X", "EQU", "", <<TOKEN_LIT(4)>>, ""),
                      Op("LD", <<TOKEN_V(0), TOKEN_ID("X")>>)>>
    /\ SaveROM(VM) = [len |-> 2, bytes |-> (0 :> 96 @@ 1 :> 4)]

\* BYTE X after X EQU 4 has failed.
C29_Byte ==
    /\ last.op = "load" /\ last.kind = "error"
    /\ file.lines = <<SourceLine("X", "EQU", "", <<TOKEN_LIT(4)>>, ""),
                      Op("BYTE", <<TOKEN_ID("X")>>)>>
    /\ Log = {[line |-> 2, err |-> "interface conversion"]}

-----------------------------------------------------------------------------
(* C30: the disassembler on the words of the assembler                     *)

\* All lines of instructions of the model, and the mode a line needs.
Instructions == FormLines \cup SuperLines \cup ExtendedLines
Needs(line) ==
    IF line \in SuperLines /\ line.i # "DRW" THEN <<SourceLine("", "SUPER", "", <<>>, "")>>
    ELSE IF line \in ExtendedLines THEN <<SourceLine("", "EXTENDED", "", <<>>, "")>>
    ELSE <<>>

\* The text of the source line at address at.  BCD Vx is also written
\* LD B,Vx.
Canonical(at, line) ==
    IF line.i = "BCD" /\ Len(line.ops) = 1 THEN Text(at, "LD", <<TOKEN("B")>> \o line.ops)
    ELSE Text(at, line.i, line.ops)

\* The source is one instruction under the directive it needs, and has
\* assembled.
OneInstruction(line) == Assembles /\ file.lines = Needs(line) \o <<line>>

\* C30: for every opcode of the assembler's table, disassembling the two
\* bytes that the assembler emits for a form of the mnemonic gives that form
\* again, with the same mnemonic and the same operands.
C30_RoundTrip ==
    \A line \in Instructions :
        OneInstruction(line) => Disassemble(VM, VM.Base) = Canonical(VM.Base, line)

\* The same for the forms of the base set other than LD I,nnn.
C30_RoundTripBase ==
    \A line \in FormLines :
        OneInstruction(line) /\ ~(line.i = "LD" /\ line.ops[1].typ = "I")
           => Disassemble(VM, VM.Base) = Canonical(VM.Base, line)

\* LD I,#234 has assembled to A2 34, which the disassembler prints as LD I,V2.
C30_LoadI ==
    /\ OneInstruction(Op("LD", <<TOKEN("I"), TOKEN_LIT(564)>>))
    /\ Get(VM.Memory, VM.Base) = 162 /\ Get(VM.Memory, VM.Base + 1) = 52
    /\ Disassemble(VM, VM.Base) = Text(VM.Base, "LD", <<TOKEN("I"), TOKEN_V(2)>>)

\* ADD V2,#34 has assembled and the disassembler prints it.
C30_Add ==
    /\ OneInstruction(Op("ADD", <<TOKEN_V(2), TOKEN_LIT(52)>>))
    /\ Disassemble(VM, VM.Base) = Text(VM.Base, "ADD", <<TOKEN_V(2), TOKEN_LIT(52)>>)

-----------------------------------------------------------------------------
(* C31: LD F,Vx and LD HF,Vx                                               *)

\* The instruction executed last was op with the register x.
Did(op, x) == last.op = Word(op, x, 0) /\ last.kind = "ok"

\* C31: for every value of Vx, LD F,Vx sets I = (Vx & 0xF) * 5 and LD HF,Vx
\* sets I = 0x50 + (Vx & 0xF) * 10, an address of a glyph of the small or the
\* large font.
C31_FontGlyph ==
    \A x \in Regs :
        /\ Did(61481, x) => VM.I = (VM.V[x] % 16) * 5
        /\ Did(61488, x) => VM.I = 80 + (VM.V[x] % 16) * 10

\* What the code does: the whole byte is multiplied, and I is the address of
\* a glyph when Vx is a digit 0..F.
C31_FontByte ==
    \A x \in Regs :
        /\ Did(61481, x) => VM.I = VM.V[x] * 5
        /\ Did(61488, x) => VM.I = 80 + VM.V[x] * 10

\* LD F,V0 with V0 = 255 has left I = 1275, beyond both font tables.
C31_NoGlyph == Did(61481, 0) /\ VM.V[0] = 255 /\ VM.I = 1275

\* LD HF,V0 with V0 = 7 has left I at the large glyph of 7.
C31_Seven == Did(61488, 0) /\ VM.V[0] = 7 /\ VM.I = 150

-----------------------------------------------------------------------------
(* C32: LD [I],Vx and LD Vx,[I].  The machine has loaded an empty program  *)
(* and executed LD V0,a / LD V1,b / LD VF,c / LD I,i; each action is one   *)
(* more instruction that stores or loads registers, or changes one.        *)

MoveVals == {7, 254}
MoveIs == {768, MemSize - 2, MemSize - 1}

MoveInit ==
    /\ file = Blank
    /\ \E a \in MoveVals, c \in MoveVals, i \in MoveIs :
          VM = loadI(LoadedV(LoadFile(Blank, ETI, 0), a, 9, c), i).vm
    /\ Paused = TRUE
    /\ Log = {}
    /\ now = 0
    /\ host = "running"
    /\ last = Call(NoInst, "ok", NoBreak, 0, TRUE)
    /\ events = 0

\* Fx55 LD [I],Vx / Fx65 LD Vx,[I]
Store == \E x \in OpRegs :
            Ran(MaxMoves, Word(61525, x, 0), Decode(VM, Word(61525, x, 0), now, 0))
Fetch == \E x \in OpRegs :
            Ran(MaxMoves, Word(61541, x, 0), Decode(VM, Word(61541, x, 0), now, 0))
\* 6x33 LD Vx,33
Clobber == \E x \in OpRegs :
            Ran(MaxMoves, Word(24576, x, 0) + 51, Decode(VM, Word(24576, x, 0) + 51, now, 0))
\* Annn LD I,nnn
Point == \E i \in MoveIs : Ran(MaxMoves, 40960 + i, Decode(VM, 40960 + i, now, 0))

MoveNext == Store \/ Fetch \/ Clobber \/ Point

MoveSpec == MoveInit /\ [][MoveNext]_vars

\* The bytes of m2 are those of m1 but for the addresses of the set.
SameOutside(m1, m2, set) ==
    \A a \in (DOMAIN m1 \cup DOMAIN m2) \ set : Get(m2, a) = Get(m1, a)

\* The step is LD [I],Vx: V0..Vx are in memory from I on as far as the
\* memory goes, and nothing else has changed.
C32Store(x) ==
    last'.op = Word(61525, x, 0)
       => /\ last'.kind = "ok"
          /\ \A i \in 0..x : VM.I + i < MemSize => Get(VM'.Memory, VM.I + i) = VM.V[i]
          /\ DOMAIN VM'.Memory \subseteq 0..MemSize - 1
          /\ SameOutside(VM.Memory, VM'.Memory, VM.I..VM.I + x)
          /\ VM' = [VM EXCEPT !.Memory = VM'.Memory]

\* The step is LD Vx,[I]: V0..Vx are the bytes of the memory from I on, and
\* nothing else has changed.
C32Fetch(x) ==
    last'.op = Word(61541, x, 0)
       => /\ last'.kind = "ok"
          /\ \A i \in 0..x : VM.I + i < MemSize => VM'.V[i] = Get(VM.Memory, VM.I + i)
          /\ \A i \in Regs : i > x => VM'.V[i] = VM.V[i]
          /\ VM' = [VM EXCEPT !.V = VM'.V]

\* The registers after LD [I],Vx, any change of the registers to the values
\* w, and LD Vx,[I].
RoundTrip(vm, x, w) ==
    Decode([Decode(vm, Word(61525, x, 0), now, 0).vm EXCEPT !.V = w],
           Word(61541, x, 0), now, 0).vm.V

\* C32: LD [I],Vx writes V0..Vx to memory[I..I+x] and LD Vx,[I] reads them
\* back; both leave I alone, the store changes no other byte and writes none
\* outside 0..0xFFF; a store followed by a load with the same I and x, with
\* I + x <= 0xFFF, restores V0..Vx and leaves the registers above Vx alone.
C32_StoreLoad ==
    /\ [][\A x \in OpRegs : C32Store(x) /\ C32Fetch(x)]_vars
    /\ [](\A x \in OpRegs, v \in MoveVals :
             VM.I + x < MemSize
                => RoundTrip(VM, x, [i \in Regs |-> v])
                      = [i \in Regs |-> IF i <= x THEN VM.V[i] ELSE v])

\* LD V1,[I] has read back the V0 and V1 that LD [I],V1 had stored at the
\* last two bytes of the memory.
C32_Restored ==
    /\ last.op = Word(61541, 1, 0) /\ events = MaxMoves
    /\ VM.I = MemSize - 2 /\ VM.V[0] = 254 /\ VM.V[1] = 9
    /\ Get(VM.Memory, MemSize - 2) = 254 /\ Get(VM.Memory, MemSize - 1) = 9

\* LD [I],VF at I = 0xFFF has stored V0 and dropped the other registers.
C32_Dropped ==
    /\ last.op = Word(61525, 15, 0) /\ VM.I = MemSize - 1
    /\ Get(VM.Memory, MemSize - 1) = VM.V[0] /\ VM.V[1] = 9

-----------------------------------------------------------------------------
(* C33: BCD Vx.  The machine has loaded an empty program and executed      *)
(* LD V0,a / LD V1,b / LD VF,c / LD I,i for any byte a.                    *)

BcdIs == {768, MemSize - 3}

BcdInit ==
    /\ file = Blank
    /\ \E a \in 0..255, i \in BcdIs :
          VM = loadI(LoadedV(LoadFile(Blank, ETI, 0), a, 9, 105), i).vm
    /\ Paused = TRUE
    /\ Log = {}
    /\ now = 0
    /\ host = "running"
    /\ last = Call(NoInst, "ok", NoBreak, 0, TRUE)
    /\ events = 0

\* Fx33 BCD Vx
Bcd == \E x \in OpRegs :
          Ran(MaxInsts, Word(61491, x, 0), Decode(VM, Word(61491, x, 0), now, 0))

BcdNext == Bcd

BcdSpec == BcdInit /\ [][BcdNext]_vars

\* The step is BCD Vx: the three decimal digits of Vx are at I, I+1 and I+2,
\* and nothing else has changed.
C33Step(x) ==
    last'.op = Word(61491, x, 0)
       => /\ last'.kind = "ok"
          /\ Get(VM'.Memory, VM.I) = VM.V[x] \div 100
          /\ Get(VM'.Memory, VM.I + 1) = (VM.V[x] \div 10) % 10
          /\ Get(VM'.Memory, VM.I + 2) = VM.V[x] % 10
          /\ SameOutside(VM.Memory, VM'.Memory, VM.I..VM.I + 2)
          /\ VM' = [VM EXCEPT !.Memory = VM'.Memory]

\* C33: for every value of Vx and every I <= 0xFFD, BCD Vx writes the
\* hundreds, the tens and the ones of Vx to memory[I], memory[I+1] and
\* memory[I+2] and changes nothing else: not I, no register, no other byte.
C33_Digits == [][\A x \in OpRegs : C33Step(x)]_vars

\* BCD V0 with V0 = 254 has written 2, 5, 4 at the last three bytes of the
\* memory.
C33_Example ==
    /\ Did(61491, 0) /\ VM.V[0] = 254 /\ VM.I = MemSize - 3
    /\ Get(VM.Memory, MemSize - 3) = 2 /\ Get(VM.Memory, MemSize - 2) = 5
    /\ Get(VM.Memory, MemSize - 1) = 4

-----------------------------------------------------------------------------
(* C34: the catch-up loop of Process                                       *)

\* max(0, target - cycles) for a call of Process at time t.
Backlog(vm, t) == IF Target(vm, t) > vm.Cycles THEN Target(vm, t) - vm.Cycles ELSE 0

\* The step is a clock tick served while not paused.
C34Tick == last'.op = "Process" /\ ~last'.paused

\* What holds of every such call whatever ended it: Step was called at most
\* max(0, target - cycles) times; a call that returned nil left cycles >=
\* target, and cycles = target when the machine is waiting for a key and was
\* behind at entry.
C34Loop ==
    /\ last'.steps <= Backlog(VM, now')
    /\ last'.kind = "ok" => VM'.Cycles >= Target(VM, now')
    /\ (last'.kind = "ok" /\ VM'.W # NoReg /\ Backlog(VM, now') > 0)
          => VM'.Cycles = Target(VM, now')

C34_Bounded == [][C34Tick => C34Loop]_vars

\* C34: every call Process(paused = false) terminates: it executes at most
\* max(0, target - cycles at entry) instructions and returns, either with
\* cycles >= target or with the Break or the error of the Step that stopped
\* it; when the machine is or becomes waiting for a key, cycles is set to the
\* target.
C34_Returns == [][C34Tick => C34Loop /\ last'.kind \in {"ok", "break", "error"}]_vars

\* A call of Process that did not return: a Step in it panicked.
C34_Unwound == last.op = "Process" /\ ~last.paused /\ last.kind = "panic"
\* A call of Process that met a wait for a key after some instructions and
\* returned with the cycle count at the target.
C34_CaughtUp ==
    /\ last.op = "Process" /\ ~last.paused /\ last.kind = "ok" /\ last.steps > 1
    /\ VM.W # NoReg /\ VM.Cycles = Target(VM, now)

-----------------------------------------------------------------------------
(* C35: StepOut.  The user has loaded a file and rebooted it with the      *)
(* break on reset (CTRL+BACKSPACE), and then single-steps, steps out and   *)
(* presses keys of the keypad.  No subroutine of the files loops for ever. *)

\* 200 CALL 204 / 202 JP 202 / 204 LD V0,K / 206 RET
Ask == [name |-> "ask", lines |-> <<INST(8708), INST(4610), INST(61450), INST(238)>>]

OutFiles == Files \cup {Ask}

OutInit ==
    /\ file \in OutFiles
    /\ VM = Reset(LoadFile(file, ETI, 0), 0)
    /\ Paused = TRUE
    /\ Log = {}
    /\ now = 0
    /\ host = "running"
    /\ last = Call("Reset", "ok", NoBreak, 0, FALSE)
    /\ events = 0

\* VM.StepOut() from the key handler: its result r is dropped.  A panic
\* unwinds main; a StepOut that does not return leaves the event loop in the
\* handler.
SteppedOut(r) ==
    /\ VM' = r.vm
    /\ last' = Call("StepOut", r.kind, r.bp, 0, Paused)
    /\ host' = IF r.kind = "panic" THEN "crashed"
               ELSE IF r.kind = "hang" THEN "blocked" ELSE host

\* SHIFT+F7 / SHIFT+F11
StepOutKey ==
    /\ host = "running"
    /\ Event
    /\ Paused
    /\ \E rnd \in Rnds : SteppedOut(StepOut(VM, now, rnd))
    /\ UNCHANGED <<Paused, Log, now, file>>

OutNext ==
    \/ StepKey
    \/ StepOutKey
    \/ \E k \in HostKeys : KeyDown(k)

OutSpec == OutInit /\ [][OutNext]_vars

\* The step is a call of StepOut.
C35Call == last'.op = "StepOut"

\* StepOut outside a subroutine does nothing; a StepOut that returned nil has
\* left the subroutine it was called in.
C35Loop ==
    /\ VM.SP = 0 => VM' = VM /\ last'.kind = "ok"
    /\ (VM.SP > 0 /\ last'.kind = "ok") => VM'.SP < VM.SP

C35_Leaves == [][C35Call => C35Loop]_vars

\* C35: StepOut called with SP = s > 0 runs Steps until SP < s or a Step
\* returns Break or an error, and does nothing when s = 0; it never blocks the
\* event loop: when the machine is waiting for a key at the call, or starts
\* waiting during it, StepOut returns.
C35_Returns == [][C35Call => C35Loop /\ last'.kind # "hang"]_vars

\* StepOut has not returned: the machine waits for a key inside the
\* subroutine, and the event loop that would deliver the key is blocked.
C35_Blocked ==
    /\ last.op = "StepOut" /\ last.kind = "hang" /\ host = "blocked"
    /\ VM.W # NoReg /\ VM.SP > 0
\* StepOut has run a subroutine to its RET.
C35_Left == last.op = "StepOut" /\ last.kind = "ok" /\ VM.SP = 0 /\ VM.PC = 514

-----------------------------------------------------------------------------
(* C36: the audio callback and the event loop.  main loads the file of the *)
(* command line and then opens the audio device; from then on the audio    *)
(* thread calls Tone at any time, between any two statements of the event  *)
(* loop.  load assigns the global VM twice when LoadFile fails: the nil    *)
(* that LoadFile returned, and then the machine of the dummy ROM; host is  *)
(* "loading" between the two.  In this specification last is the last call *)
(* of Tone, and last.steps is Volume in quarters.                          *)

\* The value of the global VM that refers to no machine.
NoVM == [nil |-> TRUE]
\* Volume = 1.0, in quarters.
FullVolume == 4

\* 200 EXIT, without the SUPER directive
Unsupported == [name |-> "unsupported", lines |-> <<Op("EXIT", <<>>)>>]

ToneFiles == {Timers, Nest, Exit, Unsupported}

Logged(log, r) == IF r.err = "" THEN log ELSE log \cup {[line |-> r.line, err |-> r.err]}

ToneInit_loaded(r) ==
    /\ VM = r.vm
    /\ Log = Logged({}, r)

ToneInit ==
    /\ file \in ToneFiles
    /\ ToneInit_loaded(load(file, ETI, 0))
    /\ Paused = FALSE
    /\ now = 0
    /\ host = "running"
    /\ last = Call("Tone", "ok", NoBreak, 0, FALSE)
    /\ events = 0

\* load up to the assignment of what LoadFile returned, r being what load
\* ends with: with an error, VM is nil.
Assigned(r) ==
    /\ VM' = IF r.err = "" THEN r.vm ELSE NoVM
    /\ host' = IF r.err = "" THEN host ELSE "loading"
    /\ Log' = Logged(Log, r)

\* A file is dropped on the window, or F2 reloads the file: load(f).
LoadBegin(f) ==
    /\ host = "running"
    /\ Event
    /\ file' = f
    /\ Assigned(load(f, ETI, now))
    /\ UNCHANGED <<Paused, now, last>>

\* The rest of a load that failed: VM, _ = chip8.LoadROM(chip8.Dummy, false).
LoadDummy ==
    /\ host = "loading"
    /\ VM' = LoadROM(Dummy, FALSE, now)
    /\ host' = "running"
    /\ UNCHANGED <<Paused, Log, now, file, last, events>>

\* BACKSPACE: reboot(breakOnReset).
ToneReboot(breakOnReset) ==
    /\ host = "running"
    /\ Event
    /\ Paused' = breakOnReset
    /\ VM' = Reset(VM, now)
    /\ UNCHANGED <<Log, now, file, host, last>>

\* The switch on the result r of Process in the clock tick.
ToneServed(r) ==
    /\ VM' = r.vm
    /\ host' = IF r.kind = "panic" THEN "crashed" ELSE host
    /\ Paused' = IF r.kind = "break" THEN TRUE ELSE Paused
    /\ Log' = IF r.kind = "break" /\ ~r.bp.Once THEN Log \cup {Error(r.bp)} ELSE Log

ToneTick(d) ==
    /\ host = "running"
    /\ now + d <= MaxNow
    /\ now' = now + d
    /\ \E rnd \in Rnds : ToneServed(Process(VM, Paused, now + d, rnd))
    /\ UNCHANGED <<file, events, last>>

\* Tone, on the audio thread: reading VM.ST through a nil VM is a run-time
\* panic, which ends the program.
Tone ==
    /\ host # "crashed"
    /\ IF VM = NoVM
       THEN /\ host' = "crashed"
            /\ last' = Call("Tone", "panic", NoBreak, last.steps, Paused)
       ELSE /\ host' = host
            /\ last' = Call("Tone", "ok", NoBreak,
                            IF Before(now, VM.ST) THEN FullVolume
                            ELSE IF last.steps > 0 THEN last.steps - 1 ELSE 0,
                            Paused)
    /\ UNCHANGED <<VM, Paused, Log, now, file, events>>

ToneNext ==
    \/ \E f \in ToneFiles : LoadBegin(f)
    \/ LoadDummy
    \/ \E c \in BOOLEAN : ToneReboot(c)
    \/ \E d \in Delays : ToneTick(d)
    \/ Tone

ToneSpec == ToneInit /\ [][ToneNext]_vars

\* The step is a call of Tone.
C36Callback == last' # last \/ (host' = "crashed" /\ host # "crashed" /\ VM = NoVM)

\* Tone writes no state of the machine, and VM is nil only inside a load whose
\* LoadFile failed.
C36_ReadOnly == [](VM = NoVM => host \in {"loading", "crashed"}) /\ [][C36Callback => VM' = VM]_vars

\* C36: at every instant at which the audio callback can run, also while the
\* event loop is loading or reloading a file (including a load that fails)
\* or resetting, the shared VM reference is non-nil, and the callback never
\* writes VM state.
C36_ValidVM == [](VM # NoVM) /\ [][C36Callback => VM' = VM]_vars

\* Tone ran inside a load that failed and dereferenced the nil VM.
C36_NilRead == last.op = "Tone" /\ last.kind = "panic" /\ VM = NoVM /\ host = "crashed"
\* Tone read the ST deadline of a running program and set the full volume.
C36_Sounding ==
    /\ last.op = "Tone" /\ last.kind = "ok" /\ last.steps = FullVolume
    /\ VM # NoVM /\ file = Timers

-----------------------------------------------------------------------------
(* C37: the faults of Step                                                 *)

\* The values of the panics the code raises itself.
Documented == {"Stack overflow!", "Stack underflow!", "SYS calls are unimplemented"}

\* r is a fault of the Go run time: an index or a slice bound out of range,
\* or a division by zero.
Undocumented(r) == r.kind = "panic" /\ r.msg \notin Documented

\* 9012 DIV V0,V1 / FF85 LD VF,R / E09E SKP V0 / E0A1 SKNP V0 / F033 BCD V0
DivWord == Word(36866, 0, 1)
ReadRWord == Word(61573, 15, 0)
KeyWords == {Word(57502, 0, 0), Word(57505, 0, 0)}
BcdWord == Word(61491, 0, 0)
C37Words == {DivWord, ReadRWord, BcdWord} \cup KeyWords

\* When inst faults on the machine vm.
FaultsOn(vm, inst) ==
    \/ inst = DivWord /\ vm.V[1] = 0
    \/ inst = ReadRWord
    \/ inst \in KeyWords /\ vm.V[0] >= NumKeys
    \/ inst = BcdWord /\ vm.I > MemSize - 3

\* These instructions fault in the run time exactly on a zero divisor, a
\* register beyond R7, a key beyond F and digits beyond the memory.
C37_FaultCases ==
    \A inst \in C37Words : Undocumented(Decode(VM, inst, now, 0)) <=> FaultsOn(VM, inst)

\* C37: Step never faults in any way other than the documented fatal errors
\* (stack overflow, stack underflow, invalid opcode, SYS): whatever the
\* registers hold, an instruction returns Ok or one of those errors, with
\* every access inside its array and no division by zero.  No instruction
\* that is executed here calls, returns or is a SYS.
C37_NoFault ==
    /\ last.kind # "panic"
    /\ \A inst \in C37Words : ~Undocumented(Decode(VM, inst, now, 0))

\* DIV Vx,Vy was executed with Vy = 0 and the machine has crashed.
C37_DivByZero ==
    /\ \E x \in OpRegs, y \in OpRegs : last.op = Word(36866, x, y) /\ VM.V[y] = 0
    /\ last.kind = "panic" /\ host = "crashed"

-----------------------------------------------------------------------------
(* C38: the once breakpoint of a step-over                                 *)

\* The addresses of the once breakpoints of vm.
OnceBreaks(vm) == {a \in DOMAIN vm.Breakpoints : vm.Breakpoints[a].Once}

\* A once breakpoint that fires is taken out of the map: after a clock tick
\* that ended in the breakpoint of a step-over, that breakpoint is gone and
\* the machine is at its address.
C38_Consumed ==
    [][(last'.op = "Process" /\ last'.kind = "break" /\ last'.bp.Once)
          => /\ last'.bp.Address = VM'.PC
             /\ VM'.PC \notin DOMAIN VM'.Breakpoints
             /\ OnceBreaks(VM') = OnceBreaks(VM) \ {VM'.PC}
             /\ Paused']_vars

\* C38: the once breakpoint a step-over installs does not outlive it:
\* whenever emulation has stopped again (the call returned, another
\* breakpoint fired first, the user paused, or the machine was reset) the
\* breakpoint map holds no once breakpoint.
C38_NoStale == (host = "running" /\ Paused) => OnceBreaks(VM) = {}

\* The step-over of a CALL ended at a breakpoint inside the subroutine, and
\* its once breakpoint behind the CALL is still set.
C38_Stale ==
    /\ Paused /\ last.op = "Process" /\ last.kind = "break" /\ ~last.bp.Once
    /\ OnceBreaks(VM) # {} /\ VM.PC \notin OnceBreaks(VM)
\* The step-over of a CALL ended at its once breakpoint.
C38_Returned ==
    /\ Paused /\ last.op = "Process" /\ last.kind = "break" /\ last.bp.Once
    /\ OnceBreaks(VM) = {}

-----------------------------------------------------------------------------
(* C39: the disassembly window (drawInstructions, src/main.go).  Address   *)
(* and PC are of type uint, 64 bits wide.  A uint is kept here as the      *)
(* integer congruent to it modulo 2^64 that lies in -2^63 .. 2^63 - 1, so   *)
(* that sums and differences need no reduction: -2 stands for 2^64 - 2.    *)
(* In this specification last is the last redraw, and last.steps is the    *)
(* global Address it left.                                                 *)

\* a < b on uints.
Below(a, b) == IF (a < 0) = (b < 0) THEN a < b ELSE b < 0

\* The offsets of the lines: for i := 0; i < 38; i += 2.
WindowSpan == 38
Offsets == {i \in 0..WindowSpan - 1 : i % 2 = 0}

\* Address after the test at the head of drawInstructions.
Window(address, pc) ==
    IF \/ ~Below(pc - WindowSpan, address)
       \/ ~Below(address, pc - 2)
       \/ address % 2 # pc % 2
    THEN pc - 2
    ELSE address

\* Disassemble(i) faults: int(i) is negative for i >= 2^63, which passes
\* the test int(i) >= len(vm.Memory) - 1, and Memory[i] is out of range.
DisassembleFaults(i) == i < 0

\* drawInstructions: [Address, kind], the panic of a line unwinding main.
drawInstructions(address, vm) ==
    [Address |-> Window(address, vm.PC),
     kind |-> IF \E i \in Offsets : DisassembleFaults(Window(address, vm.PC) + i)
              THEN "panic" ELSE "ok"]

\* The program counters the program jumps to.
ViewPCs == {0, 1, 2, 3, 38, 40, 512, 514, 546, 548, 550, 4094, 4095}

ViewInit ==
    /\ file = Timers
    /\ VM = LoadFile(file, ETI, 0)
    /\ Paused = TRUE
    /\ Log = {}
    /\ now = 0
    /\ host = "running"
    /\ last = Call("load", "ok", NoBreak, 0, TRUE)
    /\ events = 0

\* The machine executed, as one more event, an instruction with result r
\* that is no fault.
Went(r) ==
    /\ host = "running"
    /\ Event
    /\ VM' = r.vm
    /\ UNCHANGED <<Paused, Log, now, file, host, last>>

\* 1nnn JP nnn
Goto == \E pc \in ViewPCs : Went(Decode(VM, 4096 + pc, now, 0))

\* case <-video.C: redraw(), of which drawInstructions returned r.
Redrawn(r) ==
    /\ last' = Call("redraw", r.kind, NoBreak, r.Address, Paused)
    /\ host' = IF r.kind = "panic" THEN "crashed" ELSE host

Redraw ==
    /\ host = "running"
    /\ Redrawn(drawInstructions(last.steps, VM))
    /\ UNCHANGED <<VM, Paused, Log, now, file, events>>

ViewNext == Goto \/ Redraw

ViewSpec == ViewInit /\ [][ViewNext]_vars

\* The offsets of the lines marked as the current instruction.
Marked(address, pc) == {i \in Offsets : address + i = pc}

\* The window base w is right for pc: pc - 38 < w <= pc - 2 with the parity
\* of pc, one line is marked, and no line is read from outside the memory.
C39Window(w, pc) ==
    /\ pc - WindowSpan < w /\ w <= pc - 2
    /\ w % 2 = pc % 2
    /\ Cardinality(Marked(w, pc)) = 1
    /\ \A i \in Offsets : ~DisassembleFaults(w + i)

\* The machine has not moved since the last redraw.
C39Redrawn == last.op = "redraw" /\ last.steps = Window(last.steps, VM.PC)

\* For a PC of 2 or more the window is right after every redraw, and the
\* redraw returns.
C39_From2 == (C39Redrawn /\ VM.PC >= 2) => C39Window(last.steps, VM.PC) /\ last.kind = "ok"

\* C39: after every redraw of the disassembly window, for any sequence of PC
\* values between redraws (any PC in 0..0xFFF), the window base W satisfies
\* PC - 38 < W <= PC - 2 and has the parity of PC, so that exactly one of the
\* 19 lines is marked as the current instruction and every line is
\* disassembled from an address inside memory.
C39_Aligned == C39Redrawn => C39Window(last.steps, VM.PC) /\ last.kind = "ok"

\* The redraw at PC = 0 put the window base at 2^64 - 2 and faulted on its
\* first line.
C39_Wrapped == last.op = "redraw" /\ VM.PC = 0 /\ last.steps = -2 /\ last.kind = "panic"
\* A redraw kept the window of the one before: the current instruction is
\* on the last line.
C39_Kept ==
    /\ last.op = "redraw" /\ last.kind = "ok"
    /\ VM.PC = 546 /\ last.steps = 510 /\ Marked(last.steps, VM.PC) = {36}

-----------------------------------------------------------------------------
(* C40: the memory dump (dumpMemory, src/main.go).  The machine has loaded *)
(* an empty program and executed LD V0,a / LD I,i; the user, paused, lets   *)
(* it execute ADD I,V0 and LD I,nnn and presses F8.                        *)

\* 6 lines of 12 bytes, and the bound of the test n+i < 0x10000.
DumpRows == 6
RowBytes == 12
DumpLimit == 65536
\* The text of a byte that is not read.
NoByte == 256

\* The row of the dump that starts at address n.
Row(vm, n) ==
    [i \in 0..RowBytes - 1 |-> IF n + i < DumpLimit THEN Get(vm.Memory, n + i) ELSE NoByte]
\* Reading the row faults: VM.Memory[n+i] with n+i beyond the array.
RowFaults(n) == \E i \in 0..RowBytes - 1 : n + i < DumpLimit /\ n + i >= MemSize

\* dumpMemory: [rows, kind], rows being the lines logged, those before the
\* first one that faults.
dumpMemory(vm) ==
    [rows |-> {[at |-> vm.I + l * RowBytes, bytes |-> Row(vm, vm.I + l * RowBytes)] :
                 l \in {k \in 0..DumpRows - 1 :
                          \A j \in 0..k : ~RowFaults(vm.I + j * RowBytes)}},
     kind |-> IF \E l \in 0..DumpRows - 1 : RowFaults(vm.I + l * RowBytes)
              THEN "panic" ELSE "ok"]

DumpIs == {0, 768, MemSize - 72, MemSize - 71, MemSize - 1}

DumpInit ==
    /\ file = Blank
    /\ \E a \in AluVals, i \in DumpIs :
          VM = loadI(LoadedV(LoadFile(Blank, ETI, 0), a, 9, 105), i).vm
    /\ Paused = TRUE
    /\ Log = {}
    /\ now = 0
    /\ host = "running"
    /\ last = Call("load", "ok", NoBreak, 0, TRUE)
    /\ events = 0

\* F8 while paused: dumpMemory(), which ended as r.  last.steps is the number
\* of the event that asked for the dump.
Dumped(r) ==
    /\ Log' = Log \cup r.rows
    /\ last' = Call("dumpMemory", r.kind, NoBreak, events', Paused)
    /\ host' = IF r.kind = "panic" THEN "crashed" ELSE host

DumpKey ==
    /\ host = "running"
    /\ Event
    /\ Paused
    /\ Dumped(dumpMemory(VM))
    /\ UNCHANGED <<VM, Paused, now, file>>

\* F01E ADD I,V0
AddI == Went(Decode(VM, Word(61470, 0, 0), now, 0))
\* Annn LD I,nnn
SetI == \E i \in DumpIs : Went(Decode(VM, 40960 + i, now, 0))

DumpNext == DumpKey \/ AddI \/ SetI

DumpSpec == DumpInit /\ [][DumpNext]_vars

\* The step is a memory dump.
C40Dump == last'.op = "dumpMemory" /\ last'.steps = events' /\ events' # events

\* The six rows of the dump at I, with the bytes of the memory and a blank
\* for an address beyond it.
C40Rows(vm) ==
    {[at |-> vm.I + l * RowBytes,
      bytes |-> [i \in 0..RowBytes - 1 |->
                   IF vm.I + l * RowBytes + i < MemSize
                   THEN Get(vm.Memory, vm.I + l * RowBytes + i) ELSE NoByte]] :
       l \in 0..DumpRows - 1}

\* The dump is right.
C40Right == last'.kind = "ok" /\ Log' = Log \cup C40Rows(VM) /\ VM' = VM

\* A dump whose 72 bytes all lie in the memory is right.
C40_Inside == [][(C40Dump /\ VM.I + DumpRows * RowBytes <= MemSize) => C40Right]_vars

\* C40: the memory dump shows 6 rows of 12 bytes starting at I and reads only
\* addresses inside the 4096-byte memory: for any value of I, a byte whose
\* address lies beyond 0xFFF is shown blank instead of being read, and the
\* dump changes no VM state.
C40_Dump == [][C40Dump => C40Right]_vars

\* The dump at I = 0xFB9 read Memory[0x1000] in its last row and faulted.
C40_Beyond ==
    /\ last.op = "dumpMemory" /\ last.kind = "panic" /\ host = "crashed"
    /\ VM.I = MemSize - 71 /\ Cardinality(Log) = DumpRows - 1
\* The dump at I = 0xFB8 showed the last 72 bytes of the memory.
C40_Last72 ==
    /\ last.op = "dumpMemory" /\ last.kind = "ok" /\ VM.I = MemSize - 72
    /\ Log = C40Rows(VM)

=============================================================================
